---- MODULE Spec2Model ----
(***************************************************************************)
(* Verification model of the NFL tracking pipeline:                        *)
(*   - ZoneCoverageETL (src/src/preprocess_data.py): column                *)
(*     standardisation, coordinate normalisation, timeline stitching,      *)
(*     self-healing kinematics, de-duplication;                             *)
(*   - PhysicsEngine.derive_metrics (src/src/physics_engine.py), the       *)
(*     linear-diff path for tracks shorter than the filter window;         *)
(*   - calculate_clv.main (src/src/calculate_clv.py), the per-play loop;   *)
(*   - the week loaders (src/src/data_loader.py, src/src/preprocess.py,    *)
(*     ZoneCoverageETL.run);                                               *)
(*   - ContextEngine, BenchmarkingEngine and StoryDataEngine               *)
(*     (src/src/context_engine.py, src/src/benchmarking_engine.py,         *)
(*     src/src/analysis/story_data_engine.py).                             *)
(*                                                                         *)
(* Units.  Lengths are integers in tenths of a yard (x = 1200 is the 120   *)
(* yard field length, y = 533 the 53.3 yard width), speeds are tenths of   *)
(* a yard per second (20 is the 2.0 yd/s threshold), angles are whole      *)
(* degrees.  A data frame is a sequence of records, one record per row;    *)
(* the field idx of a row is its pandas index label.                       *)
(***************************************************************************)
EXTENDS Integers, Sequences, FiniteSets, TLC

VARIABLES
    input_csv,      \* rows of input_2023_wNN.csv (pre-event tracking)
    output_csv,     \* rows of output_2023_wNN.csv (post-event tracking)
    valid_keys,     \* (game_id, play_id) keys kept by get_valid_plays_lookup
    etl_pc,         \* "loaded" before process_week_data, "done" after
    stitched,       \* full_week as concatenated (preprocess_data.py:121/126)
    normalized,     \* full_week after normalize_tracking_data (line 128)
    healed,         \* full_week with derived columns, before cleanup (line 175)
    full_week,      \* table returned by process_week_data
    phys_pc,        \* "loaded" before derive_metrics, "done" after
    phys_out,       \* table returned by PhysicsEngine.derive_metrics
    master,         \* rows of master_zone_tracking.csv read by calculate_clv
    todo,           \* play keys the loop of calculate_clv.main has not visited
    results,        \* calculate_clv.main: the results list
    disk,           \* week -> the raw files of the week that exist
    loader,         \* the loader that is run
    weeks_left,     \* weeks the loader's loop has not visited
    week_list,      \* all_input/all_output, all_plays or processed_data
    load_status,    \* "running", "returned" or the exception raised
    load_out,       \* what the loader returned or saved
    df_physics,     \* frames table handed to the context / benchmarking engine
    df_metrics,     \* per-defender metrics handed to calculate_ceoe
    df_context,     \* table returned by calculate_void_context
    df_final,       \* table returned by calculate_ceoe
    summary_df,     \* StoryDataEngine.summary_df
    selected,       \* a call of _select_candidate and the frame it returned
    cast,           \* dictionary returned by cast_archetypes
    ana_pc          \* which table is loaded, which engine has run

vars == <<input_csv, output_csv, valid_keys, etl_pc, stitched, normalized,
          healed, full_week, phys_pc, phys_out, master, todo, results,
          disk, loader, weeks_left, week_list, load_status, load_out,
          df_physics, df_metrics, df_context, df_final, summary_df, selected,
          cast, ana_pc>>

etl_vars == <<input_csv, output_csv, valid_keys, etl_pc, stitched, normalized,
              healed, full_week, phys_pc, phys_out>>

clv_vars == <<master, todo, results>>

load_vars == <<disk, loader, weeks_left, week_list, load_status, load_out>>

ana_vars == <<df_physics, df_metrics, df_context, df_final, summary_df,
              selected, cast, ana_pc>>

-----------------------------------------------------------------------------
(* Missing values *)

\* np.nan in a numeric column
NaN == 0 - 9999

\* a missing value in a string column
None == "NaN"

isna(v) == v = NaN

notna(v) == v # NaN

-----------------------------------------------------------------------------
(* Bounds of the explored inputs *)

MaxPre == 2

MaxPost == 1

-----------------------------------------------------------------------------
(* Generic data-frame helpers *)

Abs(n) == IF n < 0 THEN 0 - n ELSE n

\* lexicographic order on equal-length tuples of integers
LexLess(a, b) ==
    \E k \in 1..Len(a) : a[k] < b[k] /\ \A m \in 1..(k - 1) : a[m] = b[m]

Key2(r) == <<r.game_id, r.play_id>>

Key3(r) == <<r.game_id, r.play_id, r.nfl_id>>

Key4(r) == <<r.game_id, r.play_id, r.nfl_id, r.frame_id>>

KeyPlayFrame(r) == <<r.game_id, r.play_id, r.frame_id>>

\* the values of a key over the rows of a frame
Keys4(df) == [i \in 1..Len(df) |-> Key4(df[i])]

Keys3(df) == [i \in 1..Len(df) |-> Key3(df[i])]

KeysPlayFrame(df) == [i \in 1..Len(df) |-> KeyPlayFrame(df[i])]

\* DataFrame.sort_values on several columns, given the key of every row: a
\* stable lexicographic sort
sort_values(df, keys) ==
    LET n == Len(df)
        rank == [i \in 1..n |->
                    1 + Cardinality({j \in 1..n :
                            \/ LexLess(keys[j], keys[i])
                            \/ (keys[j] = keys[i] /\ j < i)})]
    IN  [p \in 1..n |-> df[CHOOSE i \in 1..n : rank[i] = p]]

\* DataFrame.drop_duplicates(subset=..., keep='first'), given the key of
\* every row
drop_duplicates_first(df, keys) ==
    LET marked == [i \in 1..Len(df) |->
                      [row |-> df[i],
                       keep |-> \A j \in 1..(i - 1) : keys[j] # keys[i]]]
        kept == SelectSeq(marked, LAMBDA e : e.keep)
    IN  [i \in 1..Len(kept) |-> kept[i].row]

\* DataFrame.drop_duplicates(subset=..., keep='last'), given the key of
\* every row
drop_duplicates_last(df, keys) ==
    LET n == Len(df)
        marked == [i \in 1..n |->
                      [row |-> df[i],
                       keep |-> \A j \in (i + 1)..n : keys[j] # keys[i]]]
        kept == SelectSeq(marked, LAMBDA e : e.keep)
    IN  [i \in 1..Len(kept) |-> kept[i].row]

\* the previous row of the table, whatever its group
prev_row(df, i) == i - 1

\* groupby([game_id, play_id, nfl_id]): position of the previous row of the
\* same group, 0 if there is none (the table's row order is kept inside
\* each group)
PrevInGroup(df, i) ==
    LET before == {j \in 1..(i - 1) : Key3(df[j]) = Key3(df[i])}
    IN  IF before = {} THEN 0
        ELSE CHOOSE j \in before : \A k \in before : k <= j

\* groupby([game_id, play_id, nfl_id])[col].diff(), given the column as a
\* sequence
group_diff(df, col, i) ==
    LET j == PrevInGroup(df, i)
    IN  IF j = 0 \/ isna(col[i]) \/ isna(col[j]) THEN NaN
        ELSE col[i] - col[j]

RECURSIVE SqrtSearch(_, _, _)
SqrtSearch(n, lo, hi) ==
    IF lo >= hi THEN lo
    ELSE LET mid == (lo + hi + 1) \div 2
         IN  IF mid * mid <= n THEN SqrtSearch(n, mid, hi)
             ELSE SqrtSearch(n, lo, mid - 1)

\* np.sqrt(dx**2 + dy**2), rounded down to a whole unit (exact whenever the
\* distance is a whole number of units, as for axis-aligned moves)
Hypot(dx, dy) == SqrtSearch(dx * dx + dy * dy, 0, Abs(dx) + Abs(dy))

\* np.degrees(np.arctan2(dy, dx)) for the eight compass octants
Atan2Deg(dy, dx) ==
    CASE dy = 0 /\ dx >= 0         -> 0
      [] dy = 0 /\ dx < 0          -> 180
      [] dx = 0 /\ dy > 0          -> 90
      [] dx = 0 /\ dy < 0          -> 0 - 90
      [] dx > 0 /\ dy = dx         -> 45
      [] dx > 0 /\ dy = 0 - dx     -> 0 - 45
      [] dx < 0 /\ dy = 0 - dx     -> 135
      [] dx < 0 /\ dy = dx         -> 0 - 135

-----------------------------------------------------------------------------
(* ZoneCoverageETL *)

\* standardize_columns: nfl_id is coerced to an integer, missing ids become -1
standardize_columns(df) ==
    [i \in 1..Len(df) |->
        [df[i] EXCEPT !.nfl_id = IF isna(@) THEN 0 - 1 ELSE @]]

FIELD_LENGTH == 1200

FIELD_WIDTH == 533

\* str.lower() on the values of the play_direction column
str_lower(v) ==
    CASE v = "LEFT"  -> "left"
      [] v = "RIGHT" -> "right"
      [] OTHER       -> v

\* total - v on a numeric column (NaN stays NaN)
mirror(total, v) == IF isna(v) THEN NaN ELSE total - v

\* (v + 180) % 360 on a numeric column (NaN stays NaN)
turn(v) == IF isna(v) THEN NaN ELSE (v + 180) % 360

\* a mask that mirrors every row not flagged 'right'
left_mask_not_right(r) == str_lower(r.play_direction) # "right"

\* the boolean mask of normalize_tracking_data; a missing direction compares
\* unequal to 'left'
left_mask(r) == str_lower(r.play_direction) = "left"

normalize_row(r) ==
    [r EXCEPT !.x = mirror(FIELD_LENGTH, @),
              !.y = mirror(FIELD_WIDTH, @),
              !.dir = turn(@),
              !.o = turn(@),
              !.ball_land_x = mirror(FIELD_LENGTH, @),
              !.ball_land_y = mirror(FIELD_WIDTH, @)]

normalize_tracking_data(df) ==
    [i \in 1..Len(df) |-> IF left_mask(df[i]) THEN normalize_row(df[i])
                          ELSE df[i]]

\* rows of a raw file whose play is a valid (zone coverage) play
filter_valid(csv, keys) ==
    SelectSeq(standardize_columns(csv), LAMBDA r : Key2(r) \in keys)

\* player_meta: the first input row of every (game_id, play_id, nfl_id)
player_meta(input_df) == drop_duplicates_first(input_df, Keys3(input_df))

SeqMax(S) == CHOOSE m \in S : \A v \in S : v <= m

SeqMin(S) == CHOOSE m \in S : \A v \in S : m <= v

PlayKeys(df) == {Key2(df[i]) : i \in 1..Len(df)}

FramesOf(df, k) == {df[i].frame_id : i \in {j \in 1..Len(df) : Key2(df[j]) = k}}

\* an offset taken per player instead of per play
play_offset_per_player(input_df, r) ==
    LET own == {input_df[i].frame_id :
                   i \in {j \in 1..Len(input_df) : Key3(input_df[j]) = Key3(r)}}
    IN  IF own # {} THEN SeqMax(own) ELSE NaN

\* play_offsets merged onto an output row: the largest input frame_id of the
\* row's play, NaN when the play has no input row (left merge)
play_offset(input_df, r) ==
    IF Key2(r) \in PlayKeys(input_df)
    THEN SeqMax(FramesOf(input_df, Key2(r)))
    ELSE NaN

NoMeta ==
    [player_name |-> None, player_position |-> None, player_role |-> None,
     player_side |-> None, play_direction |-> None,
     ball_land_x |-> NaN, ball_land_y |-> NaN]

\* a merge on the play key alone: the first metadata row of the play
meta_for_play_only(meta, r) ==
    LET hit == {i \in 1..Len(meta) : Key2(meta[i]) = Key2(r)}
    IN  IF hit = {} THEN NoMeta
        ELSE LET m == meta[CHOOSE i \in hit : \A j \in hit : i <= j]
             IN  [player_name |-> m.player_name,
                  player_position |-> m.player_position,
                  player_role |-> m.player_role,
                  player_side |-> m.player_side,
                  play_direction |-> m.play_direction,
                  ball_land_x |-> m.ball_land_x,
                  ball_land_y |-> m.ball_land_y]

\* the player_meta row merged onto an output row (left merge on the
\* (game_id, play_id, nfl_id) key)
meta_for(meta, r) ==
    LET hit == {i \in 1..Len(meta) : Key3(meta[i]) = Key3(r)}
    IN  IF hit = {} THEN NoMeta
        ELSE LET m == meta[CHOOSE i \in hit : TRUE]
             IN  [player_name |-> m.player_name,
                  player_position |-> m.player_position,
                  player_role |-> m.player_role,
                  player_side |-> m.player_side,
                  play_direction |-> m.play_direction,
                  ball_land_x |-> m.ball_land_x,
                  ball_land_y |-> m.ball_land_y]

\* the sum without fillna(0): a missing offset makes the frame id missing
stitched_frame_id_nofill(frame_id, offset) ==
    IF isna(offset) THEN NaN ELSE frame_id + offset

\* output_df['frame_id'] + output_df['offset'].fillna(0)
stitched_frame_id(frame_id, offset) ==
    frame_id + (IF isna(offset) THEN 0 ELSE offset)

\* an output row after the two merges, the frame shift and the phase tag;
\* the output file carries positions only
post_row(input_df, meta, r) ==
    LET m == meta_for(meta, r)
    IN  [game_id |-> r.game_id, play_id |-> r.play_id, nfl_id |-> r.nfl_id,
         frame_id |-> stitched_frame_id(r.frame_id, play_offset(input_df, r)),
         phase |-> "post_throw",
         x |-> r.x, y |-> r.y, s |-> NaN, a |-> NaN, dir |-> NaN, o |-> NaN,
         player_name |-> m.player_name,
         player_position |-> m.player_position,
         player_role |-> m.player_role, player_side |-> m.player_side,
         play_direction |-> m.play_direction,
         ball_land_x |-> m.ball_land_x, ball_land_y |-> m.ball_land_y]

pre_row(r) ==
    [game_id |-> r.game_id, play_id |-> r.play_id, nfl_id |-> r.nfl_id,
     frame_id |-> r.frame_id, phase |-> "pre_throw",
     x |-> r.x, y |-> r.y, s |-> r.s, a |-> r.a, dir |-> r.dir, o |-> r.o,
     player_name |-> r.player_name, player_position |-> r.player_position,
     player_role |-> r.player_role, player_side |-> r.player_side,
     play_direction |-> r.play_direction,
     ball_land_x |-> r.ball_land_x, ball_land_y |-> r.ball_land_y]

\* a record extended by the field idx
WithIdx(r, i) == [f \in (DOMAIN r) \cup {"idx"} |->
                     IF f = "idx" THEN i ELSE r[f]]

\* pd.concat([input_df, output_df], ignore_index=True); with no output rows
\* full_week is input_df, re-indexed by the merge with context_df
concat_phases(input_df, output_df) ==
    LET meta == player_meta(input_df)
        n == Len(input_df)
    IN  [i \in 1..(n + Len(output_df)) |->
            IF i <= n THEN WithIdx(pre_row(input_df[i]), i)
            ELSE WithIdx(post_row(input_df, meta, output_df[i - n]), i)]

\* play_gap_info: the frame alignment check of every input play, taken on
\* the output frame ids as read (before the offset is added)
play_gap_info(input_df, output_df) ==
    [k \in PlayKeys(input_df) |->
        /\ output_df # <<>>
        /\ k \in PlayKeys(output_df)
        /\ SeqMin(FramesOf(output_df, k)) # SeqMax(FramesOf(input_df, k)) + 1]

COMMITTED_SPEED == 20

\* a fill that overwrites a present value whenever a derived one exists
fillna_overwrite(v, other) == IF notna(other) THEN other ELSE v

\* Series.fillna(other): the other value only where the value is missing
fillna(v, other) == IF isna(v) THEN other ELSE v

\* s_derived = sqrt(dx**2 + dy**2) / 0.1
s_derived(dx, dy) ==
    IF isna(dx) \/ isna(dy) THEN NaN ELSE Hypot(dx, dy) * 10

\* dir_derived_nfl = (90 - degrees(arctan2(dy, dx))) % 360
dir_derived_nfl(dx, dy) ==
    IF isna(dx) \/ isna(dy) THEN NaN ELSE (90 - Atan2Deg(dy, dx)) % 360

\* mask_fast = full_week['s'] > 2.0 (False on a missing speed)
mask_fast(s) == notna(s) /\ s > COMMITTED_SPEED

\* no forward fill at all
group_ffill_none(df, col, i) == col[i]

\* a forward fill over the whole table, across the group boundaries
group_ffill_ungrouped(df, col, i) ==
    LET known == {j \in 1..i : notna(col[j])}
    IN  IF known = {} THEN NaN
        ELSE col[CHOOSE j \in known : \A k \in known : k <= j]

\* groupby([game_id, play_id, nfl_id])[col].ffill(), given the column as a
\* sequence
group_ffill(df, col, i) ==
    LET known == {j \in 1..i : Key3(df[j]) = Key3(df[i]) /\ notna(col[j])}
    IN  IF known = {} THEN NaN
        ELSE col[CHOOSE j \in known : \A k \in known : k <= j]

\* the self-healing block: sort, per-track deltas, derived speed and
\* direction, fill of missing s / dir, orientation rule, forward fill
self_heal(df) ==
    LET st == sort_values(df, Keys4(df))
        n == Len(st)
        xs == [i \in 1..n |-> st[i].x]
        ys == [i \in 1..n |-> st[i].y]
        dx == [i \in 1..n |-> group_diff(st, xs, i)]
        dy == [i \in 1..n |-> group_diff(st, ys, i)]
        sd == [i \in 1..n |-> s_derived(dx[i], dy[i])]
        dd == [i \in 1..n |-> dir_derived_nfl(dx[i], dy[i])]
        s1 == [i \in 1..n |-> fillna(st[i].s, sd[i])]
        dir1 == [i \in 1..n |-> fillna(st[i].dir, dd[i])]
        o1 == [i \in 1..n |-> IF mask_fast(s1[i]) /\ isna(st[i].o)
                              THEN dir1[i] ELSE st[i].o]
    IN  [i \in 1..n |->
            [f \in (DOMAIN st[i]) \cup {"dx", "dy", "s_derived",
                                        "dir_derived_nfl"} |->
                CASE f = "dx" -> dx[i]
                  [] f = "dy" -> dy[i]
                  [] f = "s_derived" -> sd[i]
                  [] f = "dir_derived_nfl" -> dd[i]
                  [] f = "s" -> s1[i]
                  [] f = "dir" -> dir1[i]
                  [] f = "o" -> group_ffill(st, o1, i)
                  [] OTHER -> st[i][f]]]

\* full_week.drop(columns=[dx, dy, s_derived, ...])
drop_temp(df) ==
    [i \in 1..Len(df) |->
        [f \in (DOMAIN df[i]) \ {"dx", "dy", "s_derived", "dir_derived_nfl"}
            |-> df[i][f]]]

\* the de-duplication with keep='first'
deduplicate_keep_first(df) == drop_duplicates_first(df, Keys4(df))

\* drop_duplicates(subset=[game_id, play_id, nfl_id, frame_id], keep='last')
deduplicate(df) == drop_duplicates_last(df, Keys4(df))

isnull_str(v) == v = None \/ v = ""

\* missing_metadata(row) over the critical columns
missing_metadata(r) ==
    \/ isnull_str(r.player_name)
    \/ isnull_str(r.player_position)
    \/ isnull_str(r.player_role)
    \/ isna(r.s) \/ isna(r.a) \/ isna(r.dir) \/ isna(r.o)

\* the has_gap and missing_metadata columns
add_flags(df, gaps) ==
    [i \in 1..Len(df) |->
        [f \in (DOMAIN df[i]) \cup {"has_gap", "missing_metadata"} |->
            CASE f = "has_gap" ->
                    IF Key2(df[i]) \in DOMAIN gaps THEN gaps[Key2(df[i])]
                    ELSE FALSE
              [] f = "missing_metadata" -> missing_metadata(df[i])
              [] OTHER -> df[i][f]]]

\* process_week_data from the concatenated table on
finish_week(healed_df, gaps) ==
    LET kept == deduplicate(drop_temp(healed_df))
    IN  add_flags(sort_values(kept, KeysPlayFrame(kept)), gaps)

\* process_week_data: the table returned for one week
process_week_data(in_csv, out_csv, keys) ==
    LET input_df == filter_valid(in_csv, keys)
        output_df == filter_valid(out_csv, keys)
    IN  IF input_df = <<>> THEN <<>>
        ELSE finish_week(
                 self_heal(normalize_tracking_data(
                               concat_phases(input_df, output_df))),
                 play_gap_info(input_df, output_df))

-----------------------------------------------------------------------------
(* PhysicsEngine *)

WINDOW == 7

\* the rows of one (game_id, play_id, nfl_id) group, as positions in df
GroupOf(df, i) == {j \in 1..Len(df) : Key3(df[j]) = Key3(df[i])}

\* calculate_sg for a group shorter than WINDOW: s = dist / 0.1 from the
\* previous row of the group, a = s.diff().fillna(0) / 0.1
calculate_sg(df, i) ==
    LET j == PrevInGroup(df, i)
        xs == [k \in 1..Len(df) |-> df[k].x]
        ys == [k \in 1..Len(df) |-> df[k].y]
        s_of(k) == s_derived(group_diff(df, xs, k), group_diff(df, ys, k))
        s == s_of(i)
        sp == IF j = 0 THEN NaN ELSE s_of(j)
    IN  [s_derived |-> s,
         a_derived |-> IF isna(s) \/ isna(sp) THEN 0 ELSE (s - sp) * 10]

\* derive_metrics: sort, per-group metrics for the rows that have a player
\* id, mapped back onto the frame; other rows keep a missing value
derive_metrics(df) ==
    LET st == sort_values(df, Keys4(df))
    IN  [i \in 1..Len(st) |->
            LET m == IF notna(st[i].nfl_id) THEN calculate_sg(st, i)
                     ELSE [s_derived |-> NaN, a_derived |-> NaN]
            IN  [game_id |-> st[i].game_id, play_id |-> st[i].play_id,
                 nfl_id |-> st[i].nfl_id, frame_id |-> st[i].frame_id,
                 x |-> st[i].x, y |-> st[i].y,
                 s_derived |-> m.s_derived, a_derived |-> m.a_derived]]

-----------------------------------------------------------------------------
(* The weekly files explored *)

GAME == 1

\* the (play, player) tracks of the week and where each track starts
Slots ==
    <<[play_id |-> 1, nfl_id |-> 1, x0 |-> 300],
      [play_id |-> 1, nfl_id |-> 2, x0 |-> 500],
      [play_id |-> 2, nfl_id |-> 1, x0 |-> 700]>>

Y0 == 265

\* static metadata of a player in a play
Roster(play_id, nfl_id) ==
    CASE nfl_id = 1 /\ play_id = 1 ->
            [player_name |-> "Ann", player_position |-> "WR",
             player_role |-> "Targeted Receiver", player_side |-> "Offense"]
      [] nfl_id = 1 /\ play_id = 2 ->
            [player_name |-> "Ann", player_position |-> "WR",
             player_role |-> "Other Route Runner", player_side |-> "Offense"]
      [] OTHER ->
            [player_name |-> "Bob", player_position |-> "CB",
             player_role |-> "Defensive Coverage", player_side |-> "Defense"]

\* raw sensor readings of an input row: s, dir, o (any of them may be absent)
Sensors ==
    [full_slow |-> [s |-> 15, dir |-> 45, o |-> 200],
     full_fast |-> [s |-> 45, dir |-> 45, o |-> 200],
     slow_no_o |-> [s |-> 15, dir |-> 45, o |-> NaN],
     fast_no_o |-> [s |-> 45, dir |-> 45, o |-> NaN],
     fast_only |-> [s |-> 45, dir |-> NaN, o |-> NaN],
     none      |-> [s |-> NaN, dir |-> NaN, o |-> NaN]]

SensorOpts == DOMAIN Sensors

\* distance moved per frame: standing, 0.2 yd (2.0 yd/s), 1.0 yd (10 yd/s)
Steps == {0, 2, 10}

PlayDirections == {"left", "right", "LEFT", None}

BallLandX(play_id) == IF play_id = 1 THEN 900 ELSE NaN

BallLandY(play_id) == IF play_id = 1 THEN 200 ELSE NaN

InputRow(slot, k, step, sensor, pdir) ==
    LET m == Roster(slot.play_id, slot.nfl_id)
        v == Sensors[sensor]
    IN  [game_id |-> GAME, play_id |-> slot.play_id, nfl_id |-> slot.nfl_id,
         frame_id |-> k, x |-> slot.x0 + step * (k - 1), y |-> Y0,
         s |-> v.s, a |-> 5, dir |-> v.dir, o |-> v.o,
         player_name |-> m.player_name,
         player_position |-> m.player_position,
         player_role |-> m.player_role, player_side |-> m.player_side,
         play_direction |-> pdir,
         ball_land_x |-> BallLandX(slot.play_id),
         ball_land_y |-> BallLandY(slot.play_id)]

\* the output file restarts its frame numbering at first
OutputRow(slot, npre, j, first, step) ==
    [game_id |-> GAME, play_id |-> slot.play_id, nfl_id |-> slot.nfl_id,
     frame_id |-> first + j - 1,
     x |-> slot.x0 + step * (npre + j - 1), y |-> Y0]

RECURSIVE Flatten(_)
Flatten(ss) == IF ss = <<>> THEN <<>> ELSE Head(ss) \o Flatten(Tail(ss))

InputFile(npre, step, sensor, pdir) ==
    Flatten([i \in 1..Len(Slots) |->
                [k \in 1..npre[i] |->
                    InputRow(Slots[i], k, step[i], sensor[i][k],
                             pdir[Slots[i].play_id])]])

OutputFile(npre, npost, first, step) ==
    Flatten([i \in 1..Len(Slots) |->
                [j \in 1..npost[i] |->
                    OutputRow(Slots[i], npre[i], j, first, step[i])]])

AllPlays == {<<GAME, 1>>, <<GAME, 2>>}

EtlIdle ==
    /\ stitched = <<>> /\ normalized = <<>> /\ healed = <<>>
    /\ full_week = <<>> /\ phys_out = <<>>

ClvIdle == master = <<>> /\ todo = {} /\ results = <<>>

\* nothing returned or raised yet
LoadBlank == [raised |-> None]

LoadIdle ==
    /\ disk = <<>>
    /\ loader = "none"
    /\ weeks_left = <<>>
    /\ week_list = <<>>
    /\ load_status = "idle"
    /\ load_out = LoadBlank

AnaIdle ==
    /\ df_physics = <<>> /\ df_metrics = <<>> /\ df_context = <<>>
    /\ df_final = <<>> /\ summary_df = <<>> /\ selected = <<>>
    /\ cast = <<>> /\ ana_pc = "idle"

\* first frame id of the output file, play direction of play 1, valid plays
StitchCases ==
    {<<first, "right", AllPlays>> : first \in {0, 1, 2}}
        \cup {<<1, d, AllPlays>> : d \in PlayDirections}
        \cup {<<0, "left", {<<GAME, 1>>}>>, <<1, "right", {<<GAME, 1>>}>>}

\* weeks that differ in which tracks exist, how long they are, where the
\* output file starts counting, the play direction and the valid plays
InitStitch ==
    \E npre \in [1..Len(Slots) -> 0..MaxPre],
       npost \in [1..Len(Slots) -> 0..MaxPost],
       c \in StitchCases :
      LET first == c[1]
          d == c[2]
          keys == c[3]
      IN
        /\ input_csv = InputFile(npre, <<10, 10, 10>>,
                                 [i \in 1..Len(Slots) |->
                                     [k \in 1..MaxPre |-> "fast_no_o"]],
                                 <<d, "right">>)
        /\ output_csv = OutputFile(npre, npost, first, <<10, 10, 10>>)
        /\ valid_keys = keys

KinPre == <<2, 1, 0>>

KinPost == <<1, 1, 0>>

\* weeks of one play that differ in the sensor readings and the motion
InitKin ==
    \E sensor \in [1..2 -> [1..2 -> SensorOpts]],
       step \in [1..2 -> Steps],
       d \in {"left", "right"} :
        /\ sensor[2][2] = "none"
        /\ input_csv = InputFile(KinPre, step \o <<0>>,
                                 sensor \o <<sensor[1]>>, <<d, d>>)
        /\ output_csv = OutputFile(KinPre, KinPost, 1, step \o <<0>>)
        /\ valid_keys = AllPlays

\* frames handed to the physics engine: tracks of different lengths and
\* motions, no output file
InitPhysics ==
    \E npre \in [1..Len(Slots) -> 0..MaxPre],
       step \in [1..Len(Slots) -> Steps] :
        /\ input_csv = InputFile(npre, step,
                                 [i \in 1..Len(Slots) |->
                                     [k \in 1..MaxPre |-> "none"]],
                                 <<"right", "right">>)
        /\ output_csv = <<>>
        /\ valid_keys = AllPlays

Init ==
    /\ \/ (InitStitch \/ InitKin) /\ etl_pc = "loaded" /\ phys_pc = "idle"
       \/ InitPhysics /\ etl_pc = "idle" /\ phys_pc = "loaded"
    /\ EtlIdle
    /\ ClvIdle
    /\ LoadIdle
    /\ AnaIdle

\* ZoneCoverageETL.process_week_data on the week's files
ProcessWeek ==
    /\ etl_pc = "loaded"
    /\ LET input_df == filter_valid(input_csv, valid_keys)
           output_df == filter_valid(output_csv, valid_keys)
           cat == concat_phases(input_df, output_df)
           norm == normalize_tracking_data(cat)
       IN  IF input_df = <<>>
           THEN /\ stitched' = <<>> /\ normalized' = <<>> /\ healed' = <<>>
           ELSE /\ stitched' = cat
                /\ normalized' = norm
                /\ healed' = self_heal(norm)
    /\ full_week' = process_week_data(input_csv, output_csv, valid_keys)
    /\ etl_pc' = "done"
    /\ UNCHANGED <<input_csv, output_csv, valid_keys, phys_pc, phys_out>>
    /\ UNCHANGED clv_vars
    /\ UNCHANGED load_vars
    /\ UNCHANGED ana_vars

\* PhysicsEngine.derive_metrics on the pre-event frames; every track is
\* shorter than WINDOW, so calculate_sg takes its linear-diff path
DeriveMetrics ==
    /\ phys_pc = "loaded"
    /\ \A i \in 1..Len(input_csv) :
           Cardinality(GroupOf(input_csv, i)) < WINDOW
    /\ phys_out' = derive_metrics(input_csv)
    /\ phys_pc' = "done"
    /\ UNCHANGED <<input_csv, output_csv, valid_keys, etl_pc, stitched,
                   normalized, healed, full_week>>
    /\ UNCHANGED clv_vars
    /\ UNCHANGED load_vars
    /\ UNCHANGED ana_vars

Next == ProcessWeek \/ DeriveMetrics

Spec == Init /\ [][Next]_vars

-----------------------------------------------------------------------------
(* calculate_clv.main: the per-play loop *)

TRICK_WINDOW == 10

MIN_AIR_YARDS == 80

\* a filter that also rejects a pass of exactly MIN_AIR_YARDS
too_short_inclusive(pass_length) == pass_length <= MIN_AIR_YARDS

\* the air-yards filter: derived_pass_length < 8.0
too_short(pass_length) == pass_length < MIN_AIR_YARDS

\* the rows of one group of df.groupby(game_id)
play_group_by_game(df, k) == SelectSeq(df, LAMBDA r : r.game_id = k[1])

\* the rows of one group of df.groupby([game_id, play_id]), in table order
play_group(df, k) == SelectSeq(df, LAMBDA r : Key2(r) = k)

\* the keys in the order groupby visits them (sorted)
first_key(keys) == CHOOSE k \in keys : \A j \in keys : j = k \/ LexLess(k, j)

\* squared distance of a row to a point (same arg-min as the distance)
dist_sq(r, px, py) == (r.x - px) * (r.x - px) + (r.y - py) * (r.y - py)

\* the first row of the frame with the greatest distance
idxmax(df, px, py) ==
    CHOOSE i \in 1..Len(df) :
        /\ \A j \in 1..Len(df) : dist_sq(df[i], px, py) >= dist_sq(df[j], px, py)
        /\ \A j \in 1..(i - 1) : dist_sq(df[j], px, py) < dist_sq(df[i], px, py)

\* dists.idxmin(): the first row of the frame with the least distance
idxmin(df, px, py) ==
    CHOOSE i \in 1..Len(df) :
        /\ \A j \in 1..Len(df) : dist_sq(df[i], px, py) <= dist_sq(df[j], px, py)
        /\ \A j \in 1..(i - 1) : dist_sq(df[j], px, py) > dist_sq(df[i], px, py)

\* steps 1-5 of the loop body: the landing point, the phases, the window,
\* the window-start snapshot, the passer, the air-yards filter, the victim
\* and the target.  ok is FALSE where the body runs into a continue.
play_context(play_data) ==
    LET ball_x == play_data[1].ball_land_x
        ball_y == play_data[1].ball_land_y
        pre_throw == SelectSeq(play_data, LAMBDA r : r.phase = "pre_throw")
        last_frame_pre == SeqMax({pre_throw[i].frame_id : i \in 1..Len(pre_throw)})
        window_start == last_frame_pre - TRICK_WINDOW
        trick_window == SelectSeq(pre_throw,
                                  LAMBDA r : r.frame_id >= window_start)
        start_frame_data == SelectSeq(trick_window,
                                      LAMBDA r : r.frame_id = window_start)
        qb_row == SelectSeq(start_frame_data,
                            LAMBDA r : r.player_role = "Passer")
        derived_pass_length == ball_x - qb_row[1].x
        defenders == SelectSeq(start_frame_data,
                        LAMBDA r : r.player_role = "Defensive Coverage")
        subject == defenders[idxmin(defenders, ball_x, ball_y)]
        target_row == SelectSeq(start_frame_data,
                        LAMBDA r : r.player_role = "Targeted Receiver")
        subj_window == SelectSeq(trick_window,
                                 LAMBDA r : r.nfl_id = subject.nfl_id)
        rejected == [ok |-> FALSE]
    IN  IF isna(ball_x) THEN rejected
        ELSE IF pre_throw = <<>> THEN rejected
        ELSE IF trick_window = <<>> THEN rejected
        ELSE IF qb_row = <<>> THEN rejected
        ELSE IF too_short(derived_pass_length) THEN rejected
        ELSE IF defenders = <<>> THEN rejected
        ELSE IF subj_window = <<>> THEN rejected
        ELSE [ok |-> TRUE,
              ball_x |-> ball_x, ball_y |-> ball_y,
              last_frame_pre |-> last_frame_pre,
              window_start |-> window_start,
              trick_window |-> trick_window,
              start_frame_data |-> start_frame_data,
              subj_window |-> subj_window,
              qb |-> qb_row[1],
              subject |-> subject,
              target_name |-> IF target_row = <<>> THEN "Unknown"
                              ELSE target_row[1].player_name,
              target_id |-> IF target_row = <<>> THEN 0 - 1
                            ELSE target_row[1].nfl_id,
              pass_length |-> derived_pass_length]

\* step 6.A: the vision cone.  Angles are whole degrees.
VISION_CONE == 60

\* abs(def_o_math - vec_qb_deg) taken as the vision error, without the wrap
\* around 360
circular_min_nowrap(diff) == diff

\* min(diff_qb, 360 - diff_qb)
circular_min(diff) == IF diff < 360 - diff THEN diff ELSE 360 - diff

\* vision_error_qb: the bearing from the victim to the passer against the
\* victim's orientation turned from compass to math convention; a missing
\* orientation gives a missing error
vision_error_qb(qb, subject) ==
    LET vec_qb_deg == Atan2Deg(qb.y - subject.y, qb.x - subject.x) % 360
        def_o_math == (90 - subject.o) % 360
        diff_qb == Abs(def_o_math - vec_qb_deg)
    IN  IF isna(subject.o) THEN NaN ELSE circular_min(diff_qb)

\* if vision_error_qb < 60 (a comparison with NaN is False)
puppeteer(qb, subject) ==
    LET v == vision_error_qb(qb, subject) IN notna(v) /\ v < VISION_CONE

\* step 6.B: the decoy tracker
SKILL_POSITIONS == {"WR", "TE", "RB", "FB"}

GRAVITY_RADIUS == 100

RUNNING_SPEED == 30

potential_decoys(start_frame_data, target_id, qb_id) ==
    SelectSeq(start_frame_data,
              LAMBDA r : /\ r.player_position \in SKILL_POSITIONS
                         /\ r.nfl_id # target_id
                         /\ r.nfl_id # qb_id)

\* a tracker that keeps the largest speed seen among the candidates
max_speed_of_any(decoys, def_x, def_y) ==
    SeqMax({0} \cup {decoys[i].s : i \in 1..Len(decoys)})

\* max_speed after the loop over potential_decoys: the speed of the row
\* that set min_dist last, i.e. the first nearest candidate; 0 without one
max_speed(decoys, def_x, def_y) ==
    IF decoys = <<>> THEN 0 ELSE decoys[idxmin(decoys, def_x, def_y)].s

\* the else branch of step 6: min_dist < 10.0 and max_speed > 3.0, and the
\* row saved as best_decoy_row
gravity(start_frame_data, qb, subject, target_id) ==
    LET decoys == potential_decoys(start_frame_data, target_id, qb.nfl_id)
        best == idxmin(decoys, subject.x, subject.y)
        speed == max_speed(decoys, subject.x, subject.y)
    IN  IF decoys = <<>> THEN [eligible |-> FALSE, decoy_name |-> None]
        ELSE [eligible |->
                  /\ dist_sq(decoys[best], subject.x, subject.y)
                         < GRAVITY_RADIUS * GRAVITY_RADIUS
                  /\ notna(speed) /\ speed > RUNNING_SPEED,
              decoy_name |-> decoys[best].player_name]

\* step 6: leak_cause and decoy_name_str.  Gravity is looked at only in the
\* else branch of the Puppeteer test.
causality(c) ==
    LET g == gravity(c.start_frame_data, c.qb, c.subject, c.target_id)
    IN  IF puppeteer(c.qb, c.subject)
        THEN [leak_cause |-> "Puppeteer", decoy_name |-> None]
        ELSE IF g.eligible
        THEN [leak_cause |-> "Gravity", decoy_name |-> g.decoy_name]
        ELSE [leak_cause |-> "Unforced Error", decoy_name |-> None]

\* np.cos / np.sin of np.radians of a multiple of 90 degrees (the floating
\* point residue of cos(90) is taken as 0)
cos_deg(a) ==
    CASE a % 360 = 0 -> 1 [] a % 360 = 90 -> 0
      [] a % 360 = 180 -> 0 - 1 [] a % 360 = 270 -> 0

sin_deg(a) == cos_deg(a - 90)

\* d / dist with no guard: 0 / 0 is NaN
unit_unguarded(d, dist) == IF dist = 0 THEN NaN ELSE d \div dist

\* d / (np.sqrt(dx**2 + dy**2) + 1e-6) for a displacement along one axis:
\* +1, -1 (to within 1e-6 / dist) or, at the landing point, 0 / 1e-6 = 0
unit(d, dist) == IF dist = 0 THEN 0 ELSE d \div dist

\* closing_speed of one row, in tenths of a yard per second; NaN where s or
\* dir is missing
closing_speed(r, ball_x, ball_y) ==
    LET dx == ball_x - r.x
        dy == ball_y - r.y
        dist == Hypot(dx, dy)
        ux == unit(dx, dist)
        uy == unit(dy, dist)
    IN  IF isna(r.s) \/ isna(r.dir) \/ isna(ux) \/ isna(uy) THEN NaN
        ELSE r.s * cos_deg(90 - r.dir) * ux + r.s * sin_deg(90 - r.dir) * uy

RECURSIVE SeqSum(_)
SeqSum(q) == IF q = <<>> THEN 0 ELSE Head(q) + SeqSum(Tail(q))

\* the unit of a mean: one sixtieth of the unit of its values, so that the
\* mean of up to six values is a whole number
MEAN_UNIT == 60

\* Series.mean(): missing values are skipped, the mean of none is NaN
mean(q) ==
    LET present == SelectSeq(q, notna)
    IN  IF present = <<>> THEN NaN
        ELSE (SeqSum(present) * MEAN_UNIT) \div Len(present)

\* a window that takes every pre_throw row of the victim
victim_rows_whole_play(play_data, c) ==
    SelectSeq(play_data, LAMBDA r : /\ r.nfl_id = c.subject.nfl_id
                                    /\ r.phase = "pre_throw")

\* subj_window: the rows of trick_window of the victim
victim_rows(play_data, c) == c.subj_window

\* step 7: clv = -1 * closing_speed.mean()
clv(play_data, c) ==
    LET rows == victim_rows(play_data, c)
        m == mean([i \in 1..Len(rows) |->
                      closing_speed(rows[i], c.ball_x, c.ball_y)])
    IN  IF isna(m) THEN NaN ELSE 0 - m

\* step 8: the recovery tax
RECOVERY_FRAMES == 10

MAX_POSSIBLE == 80

\* the last row of the sorted post_throw rows
end_row_last(post_throw) == post_throw[Len(post_throw)]

\* end_row = post_throw.iloc[9]
end_row(post_throw) == post_throw[RECOVERY_FRAMES]

recovery_tax(play_data, c) ==
    LET rows == SelectSeq(play_data,
                          LAMBDA r : /\ r.phase = "post_throw"
                                     /\ r.nfl_id = c.subject.nfl_id)
        post_throw == sort_values(rows,
                                  [i \in 1..Len(rows) |-> <<rows[i].frame_id>>])
        start_row == post_throw[1]
        dist_start == Hypot(start_row.x - c.ball_x, start_row.y - c.ball_y)
        dist_end == Hypot(end_row(post_throw).x - c.ball_x,
                          end_row(post_throw).y - c.ball_y)
        actual_closed == dist_start - dist_end
    IN  IF Len(rows) >= RECOVERY_FRAMES THEN MAX_POSSIBLE - actual_closed
        ELSE NaN

\* the dictionary appended to results for an accepted play
result_row(play_data, c) ==
    [game_id |-> play_data[1].game_id, play_id |-> play_data[1].play_id,
     nfl_id |-> c.subject.nfl_id,
     player_name |-> c.subject.player_name,
     player_position |-> c.subject.player_position,
     qb_name |-> c.qb.player_name,
     target_name |-> c.target_name,
     decoy_name |-> causality(c).decoy_name,
     clv |-> clv(play_data, c),
     recovery_tax |-> recovery_tax(play_data, c),
     leak_cause |-> causality(c).leak_cause,
     epa |-> play_data[1].expected_points_added,
     pass_result |-> play_data[1].pass_result,
     pass_length |-> c.pass_length]

-----------------------------------------------------------------------------
(* The master files explored *)

MaxDef == 2

QB_X == 200

\* landing points: missing, 7.0 / 8.0 / 20.0 air yards from the passer
BallXs == {NaN, QB_X + 70, QB_X + 80, QB_X + 200}

\* pre-event frames of the passer: window start and throw, throw only, none
QbFrames == {{1, 11}, {11}, {}}

\* "full": frames 1 and 11; "late": every frame one later except the throw,
\* so no row sits on the window-start frame; "none": no pre-event row
Layouts == {"full", "late", "none"}

MasterRow(play_id, nfl_id, frame_id, phase, x, name, pos, role, ball_x) ==
    [game_id |-> GAME, play_id |-> play_id, nfl_id |-> nfl_id,
     frame_id |-> frame_id, phase |-> phase, x |-> x, y |-> Y0,
     s |-> 30, dir |-> 90, o |-> 270,
     player_name |-> name, player_position |-> pos, player_role |-> role,
     ball_land_x |-> ball_x,
     ball_land_y |-> IF isna(ball_x) THEN NaN ELSE Y0,
     expected_points_added |-> 1, pass_result |-> "C"]

Shift(layout, f) == IF layout = "late" /\ f = 1 THEN 2 ELSE f

\* the pre-event rows of one player followed by one post-event row
PlayerRows(play_id, nfl_id, frames, layout, x, name, pos, role, ball_x) ==
    LET fs == IF layout = "none" THEN {} ELSE {Shift(layout, f) : f \in frames}
        pre == [i \in 1..Cardinality(fs) |->
                   MasterRow(play_id, nfl_id,
                             CHOOSE f \in fs :
                                 Cardinality({g \in fs : g < f}) = i - 1,
                             "pre_throw", x, name, pos, role, ball_x)]
    IN  pre \o <<MasterRow(play_id, nfl_id, 12, "post_throw", x, name, pos,
                           role, ball_x)>>

MasterPlay(play_id, ball_x, layout, qbf, ndef) ==
    PlayerRows(play_id, 1, qbf, layout, QB_X, "Quin", "QB", "Passer", ball_x)
    \o PlayerRows(play_id, 2, {1, 11}, layout, QB_X + 100, "Tess", "WR",
                  "Targeted Receiver", ball_x)
    \o Flatten([d \in 1..ndef |->
                   PlayerRows(play_id, 10 + d, {1, 11}, layout,
                              QB_X + 300 - 50 * d,
                              IF d = 1 THEN "Dan" ELSE "Eve", "CB",
                              "Defensive Coverage", ball_x)])

\* the second play of the file: absent, an analyzable play, a screen pass
OtherPlays ==
    {<<>>,
     MasterPlay(2, QB_X + 200, "full", {1, 11}, 1),
     MasterPlay(2, QB_X + 70, "full", {1, 11}, 1)}

\* the rows of two plays taken in turn, the rest of the longer one last
Interleave(a, b) ==
    LET n == IF Len(a) < Len(b) THEN Len(a) ELSE Len(b)
    IN  [i \in 1..(Len(a) + Len(b)) |->
            IF i <= 2 * n
            THEN (IF i % 2 = 1 THEN a[(i + 1) \div 2] ELSE b[i \div 2])
            ELSE IF Len(a) > n THEN a[i - n] ELSE b[i - n]]

\* where the rows of the second play sit in the file
FileOrders == {"after", "before", "mixed"}

\* files that differ in what the context checks of a play look at
InitContext ==
    \E ball_x \in BallXs, layout \in Layouts, qbf \in QbFrames,
       ndef \in 0..MaxDef, other \in OtherPlays, order \in FileOrders :
        LET p1 == MasterPlay(1, ball_x, layout, qbf, ndef)
        IN  master = IF order = "before" THEN other \o p1
                     ELSE IF order = "mixed" THEN Interleave(p1, other)
                     ELSE p1 \o other

\* the landing point of the plays below: 20.0 air yards from the passer
BALL_X == QB_X + 200

\* one sample of a track
Pt(frame_id, phase, x, s, dir, o) ==
    [frame_id |-> frame_id, phase |-> phase, x |-> x, s |-> s, dir |-> dir,
     o |-> o]

\* the rows of one player, from the samples of the track
Track(play_id, nfl_id, name, pos, role, pts) ==
    [i \in 1..Len(pts) |->
        [MasterRow(play_id, nfl_id, pts[i].frame_id, pts[i].phase, pts[i].x,
                   name, pos, role, BALL_X)
            EXCEPT !.s = pts[i].s, !.dir = pts[i].dir, !.o = pts[i].o]]

\* a player who stays at x: window start, throw, one frame in the air
Stand(x, s) ==
    <<Pt(1, "pre_throw", x, s, 90, 270), Pt(11, "pre_throw", x, s, 90, 270),
      Pt(12, "post_throw", x, s, 90, 270)>>

\* the passer and the targeted receiver (a receiver running at 4.0 yd/s)
Offense(play_id) ==
    Track(play_id, 1, "Quin", "QB", "Passer", Stand(QB_X, 0))
    \o Track(play_id, 2, "Tess", "WR", "Targeted Receiver",
             Stand(QB_X + 100, 40))

\* the other skill players, in file order, by distance to the victim and
\* speed: none, near and fast, near and slow before far and fast, far and
\* fast, fast on the radius, near at the running threshold, far and faster
\* before near and fast
DecoyConfigs ==
    {<<>>,
     <<[d |-> 50, s |-> 40]>>,
     <<[d |-> 50, s |-> 20], [d |-> 150, s |-> 40]>>,
     <<[d |-> 150, s |-> 40]>>,
     <<[d |-> 100, s |-> 40]>>,
     <<[d |-> 50, s |-> 30]>>,
     <<[d |-> 150, s |-> 50], [d |-> 50, s |-> 40]>>}

Decoys(play_id, victim_x, cfg) ==
    Flatten([i \in 1..Len(cfg) |->
                Track(play_id, 20 + i, IF i = 1 THEN "Wes" ELSE "Ray",
                      IF i = 1 THEN "WR" ELSE "RB", "Other Route Runner",
                      Stand(victim_x + cfg[i].d, cfg[i].s))])

\* the victim of a play: where he stands at window start, how he moves
\* along the x axis during the window and where he faces
VictimTrack(play_id, x, s, dir, o) ==
    LET step == IF dir = 90 THEN s ELSE 0 - s
    IN  Track(play_id, 11, "Dan", "CB", "Defensive Coverage",
              <<Pt(1, "pre_throw", x, s, dir, o),
                Pt(11, "pre_throw", x + step, s, dir, o),
                Pt(12, "post_throw", x + step, s, dir, o)>>)

\* victims in front of the passer (short of, at and beyond the landing
\* point; facing the passer, 59 and 60 degrees off, facing away) and a
\* victim behind the passer (10 degrees off on either side of the zero
\* bearing, 59 and 60 degrees off)
GeomVictims ==
    {<<x, o>> : x \in {BALL_X - 20, BALL_X, BALL_X + 20},
                o \in {270, 329, 330, 90}}
        \cup {<<QB_X - 50, o>> : o \in {100, 80, 31, 30}}

GeomPlay(play_id, v, s, dir, cfg) ==
    Offense(play_id) \o VictimTrack(play_id, v[1], s, dir, v[2])
        \o Decoys(play_id, v[1], cfg)

\* one play: geometry of the vision cone, the decoys and the victim's motion
InitGeom ==
    \E v \in GeomVictims, s \in {0, 10}, dir \in {90, 270},
       cfg \in DecoyConfigs :
        master = GeomPlay(1, v, s, dir, cfg)

\* the rows of a play under another play_id, the row of player nfl_id on
\* frame frame_id turned to orientation o
Retake(play, play_id, nfl_id, frame_id, o) ==
    [i \in 1..Len(play) |->
        IF play[i].nfl_id = nfl_id /\ play[i].frame_id = frame_id
        THEN [play[i] EXCEPT !.play_id = play_id, !.o = o]
        ELSE [play[i] EXCEPT !.play_id = play_id]]

\* two plays that differ in the victim's orientation at window start only:
\* 59 and 61 degrees off the bearing to the passer
InitTwin ==
    \E s \in {0, 10}, dir \in {90, 270}, cfg \in DecoyConfigs :
        LET p1 == GeomPlay(1, <<BALL_X - 20, 329>>, s, dir, cfg)
        IN  master = p1 \o Retake(p1, 2, 11, 1, 331)

\* three defenders 1, 10 and 20 yards from the landing point
DefenderSpots == <<BALL_X + 10, BALL_X - 100, BALL_X + 200>>

Perms3 == {p \in [1..3 -> 1..3] : \A i, j \in 1..3 : p[i] = p[j] => i = j}

\* defender d of three: the nearest one has a row before the window when
\* early is set, three rows in the window with different readings and a row
\* in the air; the second one ends on the landing point when closer is set
DefenderTrack(play_id, d, early, closer) ==
    LET x == DefenderSpots[d]
        name == IF d = 1 THEN "Dan" ELSE IF d = 2 THEN "Eve" ELSE "Fay"
        pts == IF d = 1
               THEN (IF early THEN <<Pt(0, "pre_throw", x + 50, 50, 270, 270)>>
                     ELSE <<>>)
                    \o <<Pt(1, "pre_throw", x, 10, 90, 270),
                         Pt(6, "pre_throw", x + 10, 20, 90, 270),
                         Pt(11, "pre_throw", x + 30, 60, 270, 270),
                         Pt(12, "post_throw", x, 70, 270, 270)>>
               ELSE IF d = 2 /\ closer
               THEN <<Pt(1, "pre_throw", x, 60, 90, 270),
                      Pt(6, "pre_throw", x + 50, 60, 90, 270),
                      Pt(11, "pre_throw", BALL_X, 60, 90, 270),
                      Pt(12, "post_throw", BALL_X, 60, 90, 270)>>
               ELSE Stand(x, 0)
    IN  Track(play_id, 10 + d, name, "CB", "Defensive Coverage", pts)

\* one play: the three defenders in every file order
InitVictims ==
    \E p \in Perms3, early \in BOOLEAN, closer \in BOOLEAN,
       front \in BOOLEAN :
        LET defs == Flatten([i \in 1..3 |->
                                DefenderTrack(1, p[i], early, closer)])
        IN  master = IF front THEN defs \o Offense(1) ELSE Offense(1) \o defs

\* numbers of post_throw rows of the victim
PostCounts == {0, 1, 9, 10, 11}

\* the victim's rows in the air: n rows from frame 12 on, starting at x0 and
\* moving by step a frame, in frame order or in reverse order
PostTrack(n, x0, step, reversed) ==
    [j \in 1..n |->
        LET k == IF reversed THEN n + 1 - j ELSE j
        IN  Pt(11 + k, "post_throw", x0 + step * k, Abs(step) * 10,
               IF step < 0 THEN 270 ELSE 90, 270)]

\* one play: how long and which way the victim runs while the ball is in
\* the air
InitRecovery ==
    \E n \in PostCounts, x0 \in {BALL_X - 20, BALL_X + 200},
       step \in {0 - 10, 0, 10}, reversed \in BOOLEAN :
        master = Offense(1)
                     \o Track(1, 11, "Dan", "CB", "Defensive Coverage",
                              <<Pt(1, "pre_throw", x0, 10, 90, 270),
                                Pt(11, "pre_throw", x0, 10, 90, 270)>>
                                  \o PostTrack(n, x0, step, reversed))

InitCLV ==
    /\ \/ InitContext
       \/ InitGeom
       \/ InitTwin
       \/ InitVictims
       \/ InitRecovery
    /\ todo = PlayKeys(master)
    /\ results = <<>>
    /\ input_csv = <<>> /\ output_csv = <<>> /\ valid_keys = {}
    /\ etl_pc = "idle" /\ phys_pc = "idle"
    /\ EtlIdle
    /\ LoadIdle
    /\ AnaIdle

\* a loop that stops at the first rejected play
after_play_break(keys, k, ok) == IF ok THEN keys \ {k} ELSE {}

\* the groups left after the body ran for group k: a continue and the end
\* of the body both go on to the next group
after_play(keys, k, ok) == keys \ {k}

\* one iteration of the loop over df.groupby([game_id, play_id])
AnalyzePlay ==
    /\ todo # {}
    /\ LET k == first_key(todo)
           play_data == play_group(master, k)
           c == play_context(play_data)
       IN  /\ todo' = after_play(todo, k, c.ok)
           /\ results' = IF c.ok THEN Append(results, result_row(play_data, c))
                         ELSE results
    /\ UNCHANGED master
    /\ UNCHANGED etl_vars
    /\ UNCHANGED load_vars
    /\ UNCHANGED ana_vars

NextCLV == AnalyzePlay

SpecCLV == InitCLV /\ [][NextCLV]_vars

-----------------------------------------------------------------------------
(* The week loaders: data_loader.load_multiple_weeks,                      *)
(* preprocess.preprocess_data and ZoneCoverageETL.run                      *)

MaxWeeks == 3

Weeks == 1..MaxWeeks

Loaders == {"load_multiple_weeks", "preprocess_data", "run"}

\* the rows of a week file: game_id tells the week
InWeek(df, w) == [i \in 1..Len(df) |-> [df[i] EXCEPT !.game_id = w]]

\* input_2023_wNN.csv of week w: one frame of every track
WeekInput(w) ==
    InWeek(InputFile(<<1, 1, 1>>, <<10, 10, 10>>,
                     [i \in 1..Len(Slots) |-> <<"full_fast">>],
                     <<"right", "right">>), w)

\* output_2023_wNN.csv of week w: one frame of every track
WeekOutput(w) == InWeek(OutputFile(<<1, 1, 1>>, <<1, 1, 1>>, 1, <<10, 10, 10>>), w)

\* supplementary_data.csv: one row per play of every week
Supplementary ==
    [i \in 1..(2 * MaxWeeks) |->
        [game_id |-> (i + 1) \div 2, play_id |-> 2 - (i % 2),
         week |-> (i + 1) \div 2,
         pass_result |-> IF i % 2 = 1 THEN "C" ELSE "I",
         team_coverage_man_zone |-> "ZONE_COVERAGE",
         expected_points_added |-> 1]]

\* pd.read_csv of a week file
read_csv(files, w, kind) ==
    IF kind \in files[w]
    THEN (IF kind = "input" THEN WeekInput(w) ELSE WeekOutput(w))
    ELSE <<>>

\* the first row of df with the key of r (0 when there is none): the row a
\* left merge on the key columns brings in
FirstMatch3(df, r) ==
    LET hits == {i \in 1..Len(df) : Key3(df[i]) = Key3(r)}
    IN  IF hits = {} THEN 0 ELSE SeqMin(hits)

FirstMatch2(df, r) ==
    LET hits == {i \in 1..Len(df) : Key2(df[i]) = Key2(r)}
    IN  IF hits = {} THEN 0 ELSE SeqMin(hits)

\* enrich_output_data: player_side and player_role merged onto the output
\* rows (left merge on game_id, play_id, nfl_id)
enrich_output_data(output_df, input_df) ==
    [i \in 1..Len(output_df) |->
        LET m == FirstMatch3(input_df, output_df[i])
        IN  [game_id |-> output_df[i].game_id,
             play_id |-> output_df[i].play_id,
             nfl_id |-> output_df[i].nfl_id,
             frame_id |-> output_df[i].frame_id,
             x |-> output_df[i].x, y |-> output_df[i].y,
             player_side |-> IF m = 0 THEN None ELSE input_df[m].player_side,
             player_role |-> IF m = 0 THEN None
                             ELSE input_df[m].player_role]]

\* load_week_data: both files are read, a missing one raises
load_week_data(files, w) ==
    IF "input" \notin files[w] \/ "output" \notin files[w]
    THEN [raised |-> "FileNotFoundError", input |-> <<>>,
          output_enriched |-> <<>>]
    ELSE [raised |-> None, input |-> read_csv(files, w, "input"),
          output_enriched |-> enrich_output_data(read_csv(files, w, "output"),
                                                 read_csv(files, w, "input"))]

\* a week is loaded when either of its files is there
files_exist_any(files, w) == files[w] # {}

\* os.path.exists(input_path) and os.path.exists(output_path)
files_exist(files, w) == "input" \in files[w] /\ "output" \in files[w]

\* input_last_frame merged onto an output row: the last input frame of the
\* player in the play, NaN without input rows (left merge)
input_last_frame(input_df, r) ==
    LET own == {input_df[i].frame_id :
                   i \in {j \in 1..Len(input_df) : Key3(input_df[j]) = Key3(r)}}
    IN  IF own = {} THEN NaN ELSE SeqMax(own)

\* the columns merged onto a row of combined_route: player metadata, ball
\* landing position, supplementary columns (left merges)
enrich_route_row(r, input_df, suppl) ==
    LET m == FirstMatch3(input_df, r)
        b == FirstMatch2(input_df, r)
        p == FirstMatch2(suppl, r)
    IN  [game_id |-> r.game_id, play_id |-> r.play_id, nfl_id |-> r.nfl_id,
         frame_id |-> r.frame_id, x |-> r.x, y |-> r.y, phase |-> r.phase,
         player_side |-> IF m = 0 THEN None ELSE input_df[m].player_side,
         player_role |-> IF m = 0 THEN None ELSE input_df[m].player_role,
         player_name |-> IF m = 0 THEN None ELSE input_df[m].player_name,
         player_position |-> IF m = 0 THEN None
                             ELSE input_df[m].player_position,
         ball_land_x |-> IF b = 0 THEN NaN ELSE input_df[b].ball_land_x,
         ball_land_y |-> IF b = 0 THEN NaN ELSE input_df[b].ball_land_y,
         week |-> IF p = 0 THEN NaN ELSE suppl[p].week,
         pass_result |-> IF p = 0 THEN None ELSE suppl[p].pass_result,
         expected_points_added |->
             IF p = 0 THEN NaN ELSE suppl[p].expected_points_added]

\* combined_enriched of one week: the input positions, the output positions
\* moved behind the player's last input frame, and the merged columns
combined_enriched(input_df, output_df, suppl) ==
    LET input_positions ==
            [i \in 1..Len(input_df) |->
                [game_id |-> input_df[i].game_id,
                 play_id |-> input_df[i].play_id,
                 nfl_id |-> input_df[i].nfl_id,
                 frame_id |-> input_df[i].frame_id,
                 x |-> input_df[i].x, y |-> input_df[i].y,
                 phase |-> "pre_pass"]]
        output_positions ==
            [i \in 1..Len(output_df) |->
                LET last == input_last_frame(input_df, output_df[i])
                IN  [game_id |-> output_df[i].game_id,
                     play_id |-> output_df[i].play_id,
                     nfl_id |-> output_df[i].nfl_id,
                     frame_id |-> IF isna(last) THEN NaN
                                  ELSE output_df[i].frame_id + last,
                     x |-> output_df[i].x, y |-> output_df[i].y,
                     phase |-> "post_pass"]]
        combined_route == input_positions \o output_positions
    IN  [i \in 1..Len(combined_route) |->
            enrich_route_row(combined_route[i], input_df, suppl)]

CONTESTED_ROLES == {"Targeted Receiver", "Defensive Coverage"}

\* the completion flag and the filter to the contested catch players
contested_players(plays_enriched) ==
    LET flagged ==
            [i \in 1..Len(plays_enriched) |->
                [f \in (DOMAIN plays_enriched[i]) \cup {"completion"} |->
                    IF f = "completion"
                    THEN (IF plays_enriched[i].pass_result = "C" THEN 1 ELSE 0)
                    ELSE plays_enriched[i][f]]]
    IN  SelectSeq(flagged, LAMBDA r : r.player_role \in CONTESTED_ROLES)

\* str.contains('Zone', case=False, na=False) on the values of the column
str_contains_zone(v) == v \in {"ZONE_COVERAGE", "Zone"}

\* get_valid_plays_lookup: the zone coverage plays with a pass result
valid_plays_lookup(suppl) ==
    {Key2(suppl[i]) :
        i \in {j \in 1..Len(suppl) :
                  /\ str_contains_zone(suppl[j].team_coverage_man_zone)
                  /\ suppl[j].pass_result \in {"C", "I", "IN"}}}

\* which files of which week are on disk, and the loader that is run
InitLoad ==
    /\ disk \in [Weeks -> SUBSET {"input", "output"}]
    /\ loader \in Loaders
    /\ weeks_left = [i \in 1..MaxWeeks |-> i]
    /\ week_list = <<>>
    /\ load_status = "running"
    /\ load_out = LoadBlank
    /\ input_csv = <<>> /\ output_csv = <<>> /\ valid_keys = {}
    /\ etl_pc = "idle" /\ phys_pc = "idle"
    /\ EtlIdle
    /\ ClvIdle
    /\ AnaIdle

\* load_multiple_weeks: one iteration of the loop over weeks
LoadWeek ==
    /\ loader = "load_multiple_weeks" /\ load_status = "running"
    /\ weeks_left # <<>>
    /\ LET week_data == load_week_data(disk, Head(weeks_left))
       IN  week_list' = IF week_data.raised = "FileNotFoundError"
                        THEN week_list
                        ELSE Append(week_list,
                                    [input |-> week_data.input,
                                     output_enriched |->
                                         week_data.output_enriched])
    /\ weeks_left' = Tail(weeks_left)
    /\ UNCHANGED <<disk, loader, load_status, load_out>>
    /\ UNCHANGED etl_vars
    /\ UNCHANGED clv_vars
    /\ UNCHANGED ana_vars

\* load_multiple_weeks after the loop: raise or combine
CombineWeeks ==
    /\ loader = "load_multiple_weeks" /\ load_status = "running"
    /\ weeks_left = <<>>
    /\ IF Len(week_list) = 0
       THEN /\ load_status' = "FileNotFoundError"
            /\ load_out' = [raised |-> "FileNotFoundError"]
       ELSE /\ load_status' = "returned"
            /\ load_out' =
                   [raised |-> None,
                    input |-> Flatten([i \in 1..Len(week_list) |->
                                          week_list[i].input]),
                    output_enriched |->
                        Flatten([i \in 1..Len(week_list) |->
                                    week_list[i].output_enriched])]
    /\ UNCHANGED <<disk, loader, weeks_left, week_list>>
    /\ UNCHANGED etl_vars
    /\ UNCHANGED clv_vars
    /\ UNCHANGED ana_vars

\* preprocess_data: one iteration of the loop over weeks
PreprocessWeek ==
    /\ loader = "preprocess_data" /\ load_status = "running"
    /\ weeks_left # <<>>
    /\ LET week == Head(weeks_left)
       IN  week_list' =
               IF ~files_exist(disk, week) THEN week_list
               ELSE Append(week_list,
                           combined_enriched(read_csv(disk, week, "input"),
                                             read_csv(disk, week, "output"),
                                             Supplementary))
    /\ weeks_left' = Tail(weeks_left)
    /\ UNCHANGED <<disk, loader, load_status, load_out>>
    /\ UNCHANGED etl_vars
    /\ UNCHANGED clv_vars
    /\ UNCHANGED ana_vars

\* preprocess_data after the loop: pd.concat raises ValueError on an empty
\* list; otherwise the contested players are saved to plays_enriched.csv
PreprocessCombine ==
    /\ loader = "preprocess_data" /\ load_status = "running"
    /\ weeks_left = <<>>
    /\ IF Len(week_list) = 0
       THEN /\ load_status' = "ValueError"
            /\ load_out' = [raised |-> "ValueError"]
       ELSE /\ load_status' = "returned"
            /\ load_out' = [raised |-> None,
                            plays_enriched |->
                                contested_players(Flatten(week_list))]
    /\ UNCHANGED <<disk, loader, weeks_left, week_list>>
    /\ UNCHANGED etl_vars
    /\ UNCHANGED clv_vars
    /\ UNCHANGED ana_vars

\* ZoneCoverageETL.run: one iteration of the loop; input_files holds the
\* input files that glob finds, the output file is looked up by week number
RunWeek ==
    /\ loader = "run" /\ load_status = "running"
    /\ weeks_left # <<>>
    /\ LET week == Head(weeks_left)
           week_df == process_week_data(read_csv(disk, week, "input"),
                                        read_csv(disk, week, "output"),
                                        valid_plays_lookup(Supplementary))
       IN  week_list' = IF "input" \in disk[week] /\ week_df # <<>>
                        THEN Append(week_list, week_df)
                        ELSE week_list
    /\ weeks_left' = Tail(weeks_left)
    /\ UNCHANGED <<disk, loader, load_status, load_out>>
    /\ UNCHANGED etl_vars
    /\ UNCHANGED clv_vars
    /\ UNCHANGED ana_vars

\* ZoneCoverageETL.run after the loop: the master file is written when a
\* week was processed
RunSave ==
    /\ loader = "run" /\ load_status = "running"
    /\ weeks_left = <<>>
    /\ load_status' = "returned"
    /\ load_out' = [raised |-> None, written |-> week_list # <<>>,
                    master |-> Flatten(week_list)]
    /\ UNCHANGED <<disk, loader, weeks_left, week_list>>
    /\ UNCHANGED etl_vars
    /\ UNCHANGED clv_vars
    /\ UNCHANGED ana_vars

NextLoad ==
    \/ LoadWeek
    \/ CombineWeeks
    \/ PreprocessWeek
    \/ PreprocessCombine
    \/ RunWeek
    \/ RunSave

SpecLoad == InitLoad /\ [][NextLoad]_vars

-----------------------------------------------------------------------------
(* ContextEngine.calculate_void_context                                    *)

\* str.strip() on the values of the player_role column
str_strip(v) ==
    IF v = " Targeted Receiver " THEN "Targeted Receiver"
    ELSE IF v = "Defensive Coverage " THEN "Defensive Coverage"
    ELSE v

\* every pre_throw frame instead of the last one of the play
throw_frames_any(df) == SelectSeq(df, LAMBDA r : r.phase = "pre_throw")

\* the pre_throw rows on the last pre_throw frame of their play
throw_frames(df) ==
    LET df_pre == SelectSeq(df, LAMBDA r : r.phase = "pre_throw")
    IN  SelectSeq(df_pre,
                  LAMBDA r : r.frame_id = SeqMax(FramesOf(df_pre, Key2(r))))

\* the rows of one role at the throw
role_rows(frames, role) ==
    SelectSeq(frames, LAMBDA r : str_strip(r.player_role) = role)

\* defenders.merge(targets, on=[game_id, play_id], how='inner') with the
\* dist column: one row per (defender row, target row) of a play, in the
\* order of the defender rows
merged_pairs(defenders, targets) ==
    Flatten([i \in 1..Len(defenders) |->
                LET own == SelectSeq(targets,
                                     LAMBDA t : Key2(t) = Key2(defenders[i]))
                IN  [j \in 1..Len(own) |->
                        [game_id |-> defenders[i].game_id,
                         play_id |-> defenders[i].play_id,
                         week |-> own[j].week,
                         target_nfl_id |-> own[j].nfl_id,
                         def_nfl_id |-> defenders[i].nfl_id,
                         dist |-> Hypot(defenders[i].x - own[j].x,
                                        defenders[i].y - own[j].y)]]])

\* groupby([game_id, play_id])['dist'].idxmin(): row i is the first of the
\* rows of its play with the smallest dist
group_idxmin(merged, i) ==
    \A j \in 1..Len(merged) :
        Key2(merged[j]) = Key2(merged[i]) =>
            \/ merged[i].dist < merged[j].dist
            \/ (merged[i].dist = merged[j].dist /\ i <= j)

HIGH_VOID == 50

TIGHT_WINDOW == 20

\* the thresholds taken inclusive
void_type_inclusive(dist) ==
    IF dist >= HIGH_VOID THEN "High Void"
    ELSE IF dist <= TIGHT_WINDOW THEN "Tight Window"
    ELSE "Neutral"

\* np.select([dist > 5.0, dist < 2.0], ['High Void', 'Tight Window'],
\* default='Neutral')
void_type(dist) ==
    IF dist > HIGH_VOID THEN "High Void"
    ELSE IF dist < TIGHT_WINDOW THEN "Tight Window"
    ELSE "Neutral"

\* calculate_void_context: the nearest (defender, target) pair of every
\* play at the throw, in the order of the play keys
calculate_void_context(df) ==
    LET frames == throw_frames(df)
        merged == merged_pairs(role_rows(frames, "Defensive Coverage"),
                               role_rows(frames, "Targeted Receiver"))
        idx == SelectSeq([i \in 1..Len(merged) |-> i],
                         LAMBDA i : group_idxmin(merged, i))
        min_dists == [p \in 1..Len(idx) |-> merged[idx[p]]]
        sorted == sort_values(min_dists,
                              [p \in 1..Len(min_dists) |-> Key2(min_dists[p])])
    IN  [p \in 1..Len(sorted) |->
            [game_id |-> sorted[p].game_id, play_id |-> sorted[p].play_id,
             week |-> sorted[p].week,
             target_nfl_id |-> sorted[p].target_nfl_id,
             nearest_def_nfl_id |-> sorted[p].def_nfl_id,
             dist_at_throw |-> sorted[p].dist,
             void_type |-> void_type(sorted[p].dist)]]

-----------------------------------------------------------------------------
(* The frames handed to the context engine *)

MaxCover == 2

\* where the targeted receiver stands
T_X == 500

\* where a covering defender stands at the throw, from the receiver: 1.5,
\* 2.0, 3.0, 5.0 (along x, and across the field), 6.0 yards away
VoidSpots ==
    {<<15, 0>>, <<20, 0>>, <<0, 30>>, <<50, 0>>, <<30, 40>>, <<60, 0>>}

\* one row of the frames table
FrameRow(play_id, nfl_id, frame_id, phase, x, y, role, pos) ==
    [game_id |-> GAME, play_id |-> play_id, nfl_id |-> nfl_id,
     frame_id |-> frame_id, phase |-> phase, x |-> x, y |-> y, week |-> 1,
     player_role |-> role, player_position |-> pos]

\* the receiver: on both pre_throw frames, on the first one only, or absent
TargetRows(play_id, mode, role) ==
    IF mode = "none" THEN <<>>
    ELSE <<FrameRow(play_id, 2, 1, "pre_throw", T_X, Y0, role, "WR")>>
         \o (IF mode = "throw"
             THEN <<FrameRow(play_id, 2, 2, "pre_throw", T_X, Y0, role, "WR")>>
             ELSE <<>>)
         \o <<FrameRow(play_id, 2, 3, "post_throw", T_X, Y0, role, "WR")>>

\* defender d of a play: a frame before the throw (the later a defender
\* comes in the file, the closer he is then), the throw, and a frame in
\* the air on which he has reached the receiver
CoverRows(play_id, d, spot, role) ==
    <<FrameRow(play_id, 10 + d, 1, "pre_throw", T_X + 14 - d, Y0, role, "CB"),
      FrameRow(play_id, 10 + d, 2, "pre_throw", T_X + spot[1], Y0 + spot[2],
               role, "CB"),
      FrameRow(play_id, 10 + d, 3, "post_throw", T_X, Y0, role, "CB")>>

\* a second play: receiver and one defender 6.0 yards away, their roles
\* padded with blanks
PaddedPlay ==
    TargetRows(2, "throw", " Targeted Receiver ")
        \o CoverRows(2, 1, <<60, 0>>, "Defensive Coverage ")

AnaIdleBut(pc) ==
    /\ ana_pc = pc
    /\ df_context = <<>> /\ df_final = <<>>
    /\ selected = <<>> /\ cast = <<>>
    /\ input_csv = <<>> /\ output_csv = <<>> /\ valid_keys = {}
    /\ etl_pc = "idle" /\ phys_pc = "idle"
    /\ EtlIdle
    /\ ClvIdle
    /\ LoadIdle

\* frames of one or two plays that differ in the receiver's rows and in
\* where the defenders stand at the throw
InitVoid ==
    /\ \E mode \in {"throw", "early", "none"}, n \in 0..MaxCover,
          second \in BOOLEAN :
         \E spots \in [1..n -> VoidSpots] :
           df_physics =
               (IF second THEN PaddedPlay ELSE <<>>)
               \o TargetRows(1, mode, "Targeted Receiver")
               \o Flatten([d \in 1..n |->
                              CoverRows(1, d, spots[d], "Defensive Coverage")])
    /\ df_metrics = <<>>
    /\ summary_df = <<>>
    /\ AnaIdleBut("frames")

\* ContextEngine.calculate_void_context on the frames
CalculateVoidContext ==
    /\ ana_pc = "frames"
    /\ df_context' = calculate_void_context(df_physics)
    /\ ana_pc' = "context"
    /\ UNCHANGED <<df_physics, df_metrics, df_final, summary_df, selected,
                   cast>>
    /\ UNCHANGED etl_vars
    /\ UNCHANGED clv_vars
    /\ UNCHANGED load_vars

-----------------------------------------------------------------------------
(* BenchmarkingEngine.calculate_ceoe                                       *)

\* the columns of BenchMarkingSchema: the keys and the per-player metadata
meta_cols ==
    {"game_id", "play_id", "nfl_id", "week", "player_role", "player_position"}

\* the metadata columns of every frame row, duplicates kept
df_meta_all_frames(frames) ==
    [i \in 1..Len(frames) |-> [c \in meta_cols |-> frames[i][c]]]

\* df_physics[meta_cols].drop_duplicates()
df_meta(frames) ==
    LET cut == [i \in 1..Len(frames) |-> [c \in meta_cols |-> frames[i][c]]]
    IN  drop_duplicates_first(cut, cut)

\* df_metrics.merge(df_meta, on=[game_id, play_id, nfl_id], how='left')
merge_meta(metrics, meta) ==
    Flatten([i \in 1..Len(metrics) |->
                LET own == SelectSeq(meta,
                                     LAMBDA m : Key3(m) = Key3(metrics[i]))
                IN  IF own = <<>>
                    THEN <<metrics[i] @@ [week |-> NaN, player_role |-> None,
                                          player_position |-> None]>>
                    ELSE [j \in 1..Len(own) |->
                             metrics[i]
                                 @@ [week |-> own[j].week,
                                     player_role |-> own[j].player_role,
                                     player_position |->
                                         own[j].player_position]]])

\* merge(df_context[[game_id, play_id, void_type, dist_at_throw]],
\* on=[game_id, play_id], how='left')
merge_context(df, context) ==
    Flatten([i \in 1..Len(df) |->
                LET own == SelectSeq(context, LAMBDA c : Key2(c) = Key2(df[i]))
                IN  IF own = <<>>
                    THEN <<df[i] @@ [void_type |-> None,
                                     dist_at_throw |-> NaN]>>
                    ELSE [j \in 1..Len(own) |->
                             df[i] @@ [void_type |-> own[j].void_type,
                                       dist_at_throw |->
                                           own[j].dist_at_throw]]])

\* the mean over the rows of the same position, whatever their void type
benchmark_by_position(df, i) ==
    IF df[i].player_position = None \/ df[i].void_type = None THEN NaN
    ELSE LET grp == SelectSeq(df, LAMBDA r : r.player_position
                                                 = df[i].player_position)
         IN  mean([j \in 1..Len(grp) |-> grp[j].avg_closing_speed])

\* groupby([player_position, void_type])[avg_closing_speed]
\* .transform('mean') on row i, in sixtieths: rows with a missing key are
\* in no group and get NaN
benchmark(df, i) ==
    IF df[i].player_position = None \/ df[i].void_type = None THEN NaN
    ELSE LET grp == SelectSeq(df, LAMBDA r :
                        /\ r.player_position = df[i].player_position
                        /\ r.void_type = df[i].void_type)
         IN  mean([j \in 1..Len(grp) |-> grp[j].avg_closing_speed])

\* avg_closing_speed - benchmarks, then fillna(0.0); in sixtieths
ceoe_score(df, i) ==
    IF isna(benchmark(df, i)) \/ isna(df[i].avg_closing_speed) THEN 0
    ELSE df[i].avg_closing_speed * MEAN_UNIT - benchmark(df, i)

calculate_ceoe(metrics, context, frames) ==
    LET merged == merge_context(merge_meta(metrics, df_meta(frames)), context)
    IN  [i \in 1..Len(merged) |->
            merged[i] @@ [ceoe_score |-> ceoe_score(merged, i)]]

-----------------------------------------------------------------------------
(* The tables handed to the benchmarking engine *)

MaxRows == 3

\* frame rows of a player in df_physics
FRAMES_PER_PLAYER == 3

\* a row of df_metrics by the position of its player (None: no frame row of
\* the player), the void type of its play (None: no context row of the
\* play) and its avg_closing_speed
RowKinds ==
    {[pos |-> "CB", void |-> "High Void", speed |-> 200],
     [pos |-> "CB", void |-> "High Void", speed |-> 100],
     [pos |-> "CB", void |-> "Neutral", speed |-> 100],
     [pos |-> "LB", void |-> "High Void", speed |-> 100],
     [pos |-> "LB", void |-> "High Void", speed |-> 150],
     [pos |-> "CB", void |-> None, speed |-> 200],
     [pos |-> "CB", void |-> None, speed |-> 100],
     [pos |-> None, void |-> "High Void", speed |-> 200]}

MetricsRow(i, kind) ==
    [game_id |-> GAME, play_id |-> i, nfl_id |-> 100 + i,
     avg_closing_speed |-> kind.speed, vis_score |-> 10,
     dist_at_arrival |-> 0, distance_closed |-> 50]

ContextRow(i, kind) ==
    [game_id |-> GAME, play_id |-> i, week |-> 1, target_nfl_id |-> 2,
     nearest_def_nfl_id |-> 100 + i,
     dist_at_throw |-> IF kind.void = "High Void" THEN 100 ELSE 50,
     void_type |-> kind.void]

PlayerFrames(i, kind) ==
    [f \in 1..FRAMES_PER_PLAYER |->
        FrameRow(i, 100 + i, f, IF f = 1 THEN "pre_throw" ELSE "post_throw",
                 T_X + 10 * f, Y0, "Defensive Coverage", kind.pos)]

\* metrics of up to MaxRows defenders, one play each
InitBench ==
    /\ \E n \in 0..MaxRows :
         \E kinds \in [1..n -> RowKinds] :
           /\ df_metrics = [i \in 1..n |-> MetricsRow(i, kinds[i])]
           /\ df_context =
                  Flatten([i \in 1..n |->
                              IF kinds[i].void = None THEN <<>>
                              ELSE <<ContextRow(i, kinds[i])>>])
           /\ df_physics =
                  Flatten([i \in 1..n |->
                              IF kinds[i].pos = None THEN <<>>
                              ELSE PlayerFrames(i, kinds[i])])
    /\ summary_df = <<>>
    /\ ana_pc = "metrics"
    /\ df_final = <<>> /\ selected = <<>> /\ cast = <<>>
    /\ input_csv = <<>> /\ output_csv = <<>> /\ valid_keys = {}
    /\ etl_pc = "idle" /\ phys_pc = "idle"
    /\ EtlIdle
    /\ ClvIdle
    /\ LoadIdle

\* BenchmarkingEngine.calculate_ceoe on the three tables
CalculateCeoe ==
    /\ ana_pc = "metrics"
    /\ df_final' = calculate_ceoe(df_metrics, df_context, df_physics)
    /\ ana_pc' = "final"
    /\ UNCHANGED <<df_physics, df_metrics, df_context, summary_df, selected,
                   cast>>
    /\ UNCHANGED etl_vars
    /\ UNCHANGED clv_vars
    /\ UNCHANGED load_vars

-----------------------------------------------------------------------------
(* StoryDataEngine: cast_archetypes, _select_candidate, _extract_meta      *)

\* Series.between(lo, hi): both ends inclusive
between(v, lo, hi) == lo <= v /\ v <= hi

\* the four pools of cast_archetypes (p_dist_at_throw, vis_score and
\* dist_at_arrival in tenths)
eraser_pool(df) ==
    SelectSeq(df, LAMBDA r : /\ r.p_dist_at_throw > 100
                             /\ r.vis_score > 30
                             /\ r.dist_at_arrival < 40)

rally_pool(df) ==
    SelectSeq(df, LAMBDA r : /\ r.p_dist_at_throw > 80
                             /\ between(r.vis_score, 5, 20)
                             /\ r.dist_at_arrival < 80)

blanket_pool(df) ==
    SelectSeq(df, LAMBDA r : /\ r.p_dist_at_throw < 30
                             /\ between(r.vis_score, 0 - 5, 5)
                             /\ r.dist_at_arrival < 30)

liability_pool(df) ==
    SelectSeq(df, LAMBDA r : /\ r.vis_score < 0 - 10
                             /\ r.dist_at_arrival > 20)

\* df.sort_values(sort_col, ascending=ascending)
sort_by(df, sort_col, ascending) ==
    sort_values(df, [i \in 1..Len(df) |->
                        <<IF ascending THEN df[i][sort_col]
                          ELSE 0 - df[i][sort_col]>>])

\* DataFrame.head(n)
head(df, n) == SubSeq(df, 1, IF n < Len(df) THEN n ELSE Len(df))

\* _select_candidate: the first top_n rows of the sorted pool, an empty
\* frame for an empty pool
select_candidate(df, sort_col, ascending, top_n) ==
    IF df = <<>> THEN <<>>
    ELSE head(sort_by(df, sort_col, ascending), top_n)

\* _extract_meta: None (no entry) for an empty frame, else the first row
extract_meta(row, label) ==
    IF row = <<>> THEN <<>>
    ELSE <<[game_id |-> row[1].game_id, play_id |-> row[1].play_id,
            nfl_id |-> row[1].nfl_id,
            player_name |-> IF "player_name" \in DOMAIN row[1]
                            THEN row[1].player_name ELSE "Unknown",
            vis_score |-> row[1].vis_score,
            label |-> label]>>

Archetypes == {"The Eraser", "The Rally", "The Blanket", "The Liability"}

\* cast_archetypes: every pool is searched with the default top_n = 1
cast_archetypes(df) ==
    [a \in Archetypes |->
        CASE a = "The Eraser" ->
                extract_meta(select_candidate(eraser_pool(df), "vis_score",
                                              FALSE, 1),
                             "The Eraser (Elite)")
          [] a = "The Rally" ->
                extract_meta(select_candidate(rally_pool(df), "vis_score",
                                              FALSE, 1),
                             "The Rally (Zone)")
          [] a = "The Blanket" ->
                extract_meta(select_candidate(blanket_pool(df),
                                              "dist_at_arrival", TRUE, 1),
                             "The Blanket (Lockdown)")
          [] OTHER ->
                extract_meta(select_candidate(liability_pool(df), "vis_score",
                                              TRUE, 1),
                             "The Liability (Lost Gap)")]

-----------------------------------------------------------------------------
(* The summary tables handed to the story engine *)

MaxPool == 3

MaxTopN == 2

SummaryRow(i, p_dist, vis, arrival) ==
    [game_id |-> GAME, play_id |-> i, nfl_id |-> 100 + i,
     player_name |-> "P", p_dist_at_throw |-> p_dist, vis_score |-> vis,
     dist_at_arrival |-> arrival]

\* three erasers (the last one just inside every threshold), two rallies
\* (on the two ends of the vis range), two blankets, two liabilities and a
\* play that fits no archetype
Catalogue ==
    <<SummaryRow(1, 150, 100, 0), SummaryRow(2, 150, 97, 1),
      SummaryRow(3, 101, 31, 39), SummaryRow(4, 90, 20, 70),
      SummaryRow(5, 90, 5, 79), SummaryRow(6, 20, 4, 10),
      SummaryRow(7, 29, 0 - 5, 29), SummaryRow(8, 50, 0 - 11, 21),
      SummaryRow(9, 50, 0 - 50, 100), SummaryRow(10, 50, 1, 50)>>

\* the rows of the catalogue with an index in S, in catalogue order
Pick(S) == SelectSeq(Catalogue, LAMBDA r : r.play_id \in S)

Reverse(q) == [i \in 1..Len(q) |-> q[Len(q) + 1 - i]]

\* summaries of up to MaxPool plays, in either file order
InitStory ==
    /\ \E S \in SUBSET (1..Len(Catalogue)), rev \in BOOLEAN :
           /\ Cardinality(S) <= MaxPool
           /\ summary_df = IF rev THEN Reverse(Pick(S)) ELSE Pick(S)
    /\ df_physics = <<>> /\ df_metrics = <<>>
    /\ AnaIdleBut("summary")

\* a call of _select_candidate on the whole summary table
SelectCandidate ==
    /\ ana_pc = "summary"
    /\ \E sort_col \in {"vis_score", "dist_at_arrival"}, ascending \in BOOLEAN,
          top_n \in 1..MaxTopN :
           selected' = <<[sort_col |-> sort_col, ascending |-> ascending,
                          top_n |-> top_n,
                          rows |-> select_candidate(summary_df, sort_col,
                                                    ascending, top_n)]>>
    /\ ana_pc' = "selected"
    /\ UNCHANGED <<df_physics, df_metrics, df_context, df_final, summary_df,
                   cast>>
    /\ UNCHANGED etl_vars
    /\ UNCHANGED clv_vars
    /\ UNCHANGED load_vars

\* StoryDataEngine.cast_archetypes on the summary table
CastArchetypes ==
    /\ ana_pc = "summary"
    /\ cast' = cast_archetypes(summary_df)
    /\ ana_pc' = "cast"
    /\ UNCHANGED <<df_physics, df_metrics, df_context, df_final, summary_df,
                   selected>>
    /\ UNCHANGED etl_vars
    /\ UNCHANGED clv_vars
    /\ UNCHANGED load_vars

InitAnalysis == InitVoid \/ InitBench \/ InitStory

NextAnalysis ==
    \/ CalculateVoidContext
    \/ CalculateCeoe
    \/ SelectCandidate
    \/ CastArchetypes

SpecAnalysis == InitAnalysis /\ [][NextAnalysis]_vars

-----------------------------------------------------------------------------
(* Properties of ZoneCoverageETL.process_week_data *)

EtlDone == etl_pc = "done"

\* the valid rows of the two raw files, as read
ValidInput == SelectSeq(input_csv, LAMBDA r : Key2(r) \in valid_keys)

ValidOutput == SelectSeq(output_csv, LAMBDA r : Key2(r) \in valid_keys)

\* the frame ids of the pre-event rows of a play / of a player in a play
PreFramesOfPlay(k) ==
    {ValidInput[i].frame_id : i \in {j \in 1..Len(ValidInput) :
                                        Key2(ValidInput[j]) = k}}

PreFramesOfPlayer(k) ==
    {ValidInput[i].frame_id : i \in {j \in 1..Len(ValidInput) :
                                        Key3(ValidInput[j]) = k}}

SetMax(S) == CHOOSE m \in S : \A v \in S : v <= m

\* the raw output row an output-table row of phase post_throw was read from
RawPost(r) == ValidOutput[r.idx - Len(ValidInput)]

PostRows == {i \in 1..Len(full_week) : full_week[i].phase = "post_throw"}

PreRows == {i \in 1..Len(full_week) : full_week[i].phase = "pre_throw"}

\* C1: for every play with pre-event rows, a post-event row's stitched
\* frame_id is its raw frame_id plus the largest pre-event frame_id of the
\* play (one offset per play); hence a post_throw row read with a raw frame
\* id >= 1 lies strictly after every pre_throw row of the same player.
C1_StitchOffsetPerPlay ==
    EtlDone =>
        \A i \in PostRows :
            LET r == full_week[i] IN
            PreFramesOfPlay(Key2(r)) # {} =>
                /\ r.frame_id = RawPost(r).frame_id
                                  + SetMax(PreFramesOfPlay(Key2(r)))
                /\ RawPost(r).frame_id >= 1 =>
                       \A j \in PreRows :
                           Key3(full_week[j]) = Key3(r) =>
                               full_week[j].frame_id < r.frame_id

\* a post-event row of a player whose own last pre-event frame is earlier
\* than the last pre-event frame of the play has been stitched
C1_Witness ==
    /\ EtlDone
    /\ \E i \in PostRows :
           LET r == full_week[i] IN
           /\ RawPost(r).frame_id >= 1
           /\ PreFramesOfPlayer(Key3(r)) # {}
           /\ SetMax(PreFramesOfPlayer(Key3(r)))
                  < SetMax(PreFramesOfPlay(Key2(r)))

\* C2: no two rows of the returned table share (game_id, play_id, nfl_id,
\* frame_id); where a pre-event and a post-event row meet on one key after
\* the offset, the row kept is the post_throw one.
C2_UniqueKeyPostWins ==
    EtlDone =>
        /\ \A i, j \in 1..Len(full_week) :
               i # j => Key4(full_week[i]) # Key4(full_week[j])
        /\ \A a, b \in 1..Len(stitched) :
               (/\ stitched[a].phase = "pre_throw"
                /\ stitched[b].phase = "post_throw"
                /\ Key4(stitched[a]) = Key4(stitched[b])) =>
                   \A i \in 1..Len(full_week) :
                       Key4(full_week[i]) = Key4(stitched[b]) =>
                           full_week[i].phase = "post_throw"

\* a pre-event and a post-event row collided on one key and one row is left
C2_Witness ==
    /\ EtlDone
    /\ \E a, b \in 1..Len(stitched) :
           /\ stitched[a].phase = "pre_throw"
           /\ stitched[b].phase = "post_throw"
           /\ Key4(stitched[a]) = Key4(stitched[b])
           /\ \E i \in PostRows : Key4(full_week[i]) = Key4(stitched[b])

\* the valid plays that have post-event rows and no pre-event row
OrphanPlays ==
    {k \in valid_keys : /\ PreFramesOfPlay(k) = {}
                        /\ \E j \in 1..Len(ValidOutput) :
                               Key2(ValidOutput[j]) = k}

C4_MetadataAcrossPhases ==
    EtlDone =>
        \A i \in PostRows :
            \A j \in 1..Len(ValidInput) :
                Key3(ValidInput[j]) = Key3(full_week[i]) =>
                    /\ full_week[i].player_name = ValidInput[j].player_name
                    /\ full_week[i].player_position
                           = ValidInput[j].player_position
                    /\ full_week[i].player_role = ValidInput[j].player_role
                    /\ full_week[i].player_side = ValidInput[j].player_side

\* a post_throw row of a player with pre-event rows sits in a play where an
\* earlier input row of the play belongs to a player of another role
C4_Witness ==
    /\ EtlDone
    /\ \E i \in PostRows :
           \E j, m \in 1..Len(ValidInput) :
               /\ Key3(ValidInput[j]) = Key3(full_week[i])
               /\ m < j
               /\ Key2(ValidInput[m]) = Key2(ValidInput[j])
               /\ ValidInput[m].player_role # ValidInput[j].player_role

\* the flag of a row says left, in any letter case (the mask lower-cases it)
SaysLeft(r) == r.play_direction \in {"left", "LEFT"}

\* C5: normalize_tracking_data rewrites exactly the rows whose
\* play_direction is left: x' = 120 - x, y' = 53.3 - y, dir' = (dir + 180)
\* mod 360, o' = (o + 180) mod 360, and the same mirror on ball_land_x /
\* ball_land_y; rows flagged right or without a flag are unchanged, and the
\* rows are the same before and after.
C5_MirrorExactlyLeftRows ==
    EtlDone =>
        /\ Len(normalized) = Len(stitched)
        /\ \A i \in 1..Len(stitched) :
               LET a == stitched[i]
                   b == normalized[i]
               IN  IF SaysLeft(a)
                   THEN /\ b.x = 1200 - a.x
                        /\ b.y = 533 - a.y
                        /\ b.dir = IF a.dir = NaN THEN NaN
                                   ELSE (a.dir + 180) % 360
                        /\ b.o = IF a.o = NaN THEN NaN
                                 ELSE (a.o + 180) % 360
                        /\ b.ball_land_x = IF a.ball_land_x = NaN THEN NaN
                                           ELSE 1200 - a.ball_land_x
                        /\ b.ball_land_y = IF a.ball_land_y = NaN THEN NaN
                                           ELSE 533 - a.ball_land_y
                        /\ [b EXCEPT !.x = a.x, !.y = a.y, !.dir = a.dir,
                                     !.o = a.o,
                                     !.ball_land_x = a.ball_land_x,
                                     !.ball_land_y = a.ball_land_y] = a
                   ELSE b = a

\* the table held a left row with a direction reading, and a row without a
\* play_direction
C5_Witness ==
    /\ EtlDone
    /\ \E i \in 1..Len(stitched) :
           /\ SaysLeft(stitched[i])
           /\ stitched[i].dir # NaN
           /\ normalized[i].x = 1200 - stitched[i].x
    /\ \E i \in 1..Len(stitched) : stitched[i].play_direction = None

\* C6: a row whose s, dir or o reading is present when it enters the fill
\* (the raw reading, after the coordinate normalisation) keeps exactly that
\* value; a derived value is written only where the reading was missing.
C6_FillOnlyMissing ==
    EtlDone =>
        /\ \A i \in 1..Len(healed) :
               LET h == healed[i]
                   n == normalized[h.idx]
               IN  /\ n.s # NaN => h.s = n.s
                   /\ n.dir # NaN => h.dir = n.dir
                   /\ n.o # NaN => h.o = n.o
                   /\ stitched[h.idx].s # NaN => h.s = stitched[h.idx].s
        /\ \A i \in 1..Len(full_week) :
               LET r == full_week[i]
                   n == normalized[r.idx]
               IN  /\ n.s # NaN => r.s = n.s
                   /\ n.dir # NaN => r.dir = n.dir
                   /\ n.o # NaN => r.o = n.o

\* a returned row kept a speed reading although a different derived speed
\* was available
C6_Witness ==
    /\ EtlDone
    /\ \E i \in 1..Len(healed) :
           /\ normalized[healed[i].idx].s # NaN
           /\ healed[i].s_derived # NaN
           /\ healed[i].s_derived # normalized[healed[i].idx].s
           /\ \E j \in 1..Len(full_week) :
                  /\ full_week[j].idx = healed[i].idx
                  /\ full_week[j].s = normalized[healed[i].idx].s

\* C7 as claimed: every returned row has non-missing s, dir and o.
C7_AllKinematicsPresent ==
    EtlDone =>
        \A i \in 1..Len(full_week) :
            /\ full_week[i].s # NaN
            /\ full_week[i].dir # NaN
            /\ full_week[i].o # NaN

\* the rows of the stitched table that precede row r on r's track
EarlierOnTrack(r) ==
    {j \in 1..Len(healed) :
        /\ Key3(healed[j]) = Key3(r)
        /\ \/ healed[j].frame_id < r.frame_id
           \/ healed[j].frame_id = r.frame_id /\ healed[j].idx < r.idx}

\* C7 as amended: a returned row lacks s (dir) exactly when its reading is
\* absent and it is the first row of its (game_id, play_id, nfl_id) track
\* in the stitched table (before de-duplication);
\* it lacks o exactly when the reading is absent, the row is not faster
\* than 2.0 with a direction, and no earlier row of the track has an
\* orientation.
C7_KinematicsPresentAfterTrackStart ==
    EtlDone =>
        \A i \in 1..Len(full_week) :
            LET r == full_week[i]
                n == normalized[r.idx]
            IN  /\ r.s = NaN <=> (n.s = NaN /\ EarlierOnTrack(r) = {})
                /\ r.dir = NaN <=> (n.dir = NaN /\ EarlierOnTrack(r) = {})
                /\ r.o = NaN <=>
                       /\ n.o = NaN
                       /\ ~(r.s # NaN /\ r.s > 20 /\ r.dir # NaN)
                       /\ \A j \in EarlierOnTrack(r) : healed[j].o = NaN

\* a returned first row of a track is still without speed, and a later row
\* without a reading has a recovered speed and orientation
C7_Witness ==
    /\ EtlDone
    /\ \E i \in 1..Len(full_week) :
           full_week[i].s = NaN /\ EarlierOnTrack(full_week[i]) = {}
    /\ \E i \in 1..Len(full_week) :
           /\ normalized[full_week[i].idx].s = NaN
           /\ normalized[full_week[i].idx].o = NaN
           /\ full_week[i].s # NaN
           /\ full_week[i].s <= 20
           /\ full_week[i].o # NaN

\* derived speed of every row of a sorted frame: none on the first row of a
\* track, otherwise the distance to the previous row of the same track
\* divided by 0.1 s
DerivedSpeedFromOwnTrack(df) ==
    \A i \in 1..Len(df) :
        LET prevs == {j \in 1..(i - 1) : Key3(df[j]) = Key3(df[i])}
        IN  IF prevs = {} THEN df[i].s_derived = NaN
            ELSE LET q == df[SetMax(prevs)]
                     ddx == df[i].x - q.x
                     ddy == df[i].y - q.y
                     v == df[i].s_derived
                 IN  /\ v # NaN
                     /\ q.frame_id <= df[i].frame_id
                     /\ v * v <= 100 * (ddx * ddx + ddy * ddy)
                     /\ 100 * (ddx * ddx + ddy * ddy) < (v + 10) * (v + 10)
                     /\ (ddx = 0 /\ ddy = 0) => v = 0
                     /\ (ddx \in {10, 0 - 10} /\ ddy = 0) => v = 100

\* C8: derived speed comes only from the previous frame of the same
\* (game_id, play_id, nfl_id) track, as distance / 0.1: 1.0 unit per frame
\* gives 10.0, the first frame of a track has none, a standing player has 0
\* wherever the other players are; for the linear-diff path of
\* derive_metrics and for the self-healing diff of process_week_data.
C8_DerivedSpeedPerTrack ==
    /\ EtlDone => DerivedSpeedFromOwnTrack(healed)
    /\ phys_pc = "done" => DerivedSpeedFromOwnTrack(phys_out)

\* the physics engine returned a play in which one player moves 1.0 per
\* frame (speed 10.0) and the next player stands elsewhere (speed 0)
C8_Witness ==
    /\ phys_pc = "done"
    /\ \E i, j \in 1..Len(phys_out) :
           /\ i < j
           /\ Key2(phys_out[i]) = Key2(phys_out[j])
           /\ Key3(phys_out[i]) # Key3(phys_out[j])
           /\ phys_out[i].s_derived = 100
           /\ phys_out[j].s_derived = 0
           /\ phys_out[i].x # phys_out[j].x

\* C9: a row without an orientation reading gets its own direction when its
\* speed (after the speed fill) is greater than 2.0, and otherwise the most
\* recent orientation of an earlier row of the same player in the same play
\* (none if there is no such row); the returned table carries that value.
C9_OrientationRecovery ==
    EtlDone =>
        /\ \A i \in 1..Len(healed) :
               LET h == healed[i]
                   known == {j \in 1..(i - 1) : /\ Key3(healed[j]) = Key3(h)
                                                /\ healed[j].o # NaN}
               IN  normalized[h.idx].o = NaN =>
                       IF h.s # NaN /\ h.s > 20 THEN h.o = h.dir
                       ELSE IF known = {} THEN h.o = NaN
                       ELSE h.o = healed[SetMax(known)].o
        /\ \A i \in 1..Len(full_week) :
               \E j \in 1..Len(healed) :
                   /\ healed[j].idx = full_week[i].idx
                   /\ healed[j].o = full_week[i].o

\* a slow row without orientation reading starts a track right after a row
\* of another player that has an orientation, and stays without one; a fast
\* row took its direction; a slow row took its track's earlier orientation
C9_Witness ==
    /\ EtlDone
    /\ \E i \in 2..Len(healed) :
           /\ normalized[healed[i].idx].o = NaN
           /\ healed[i].s # NaN /\ healed[i].s <= 20
           /\ Key3(healed[i - 1]) # Key3(healed[i])
           /\ healed[i - 1].o # NaN
           /\ healed[i].o = NaN
    /\ \E i \in 1..Len(healed) :
           /\ normalized[healed[i].idx].o = NaN
           /\ healed[i].s # NaN /\ healed[i].s > 20
           /\ healed[i].o = healed[i].dir /\ healed[i].o # NaN
    /\ \E i \in 2..Len(healed) :
           /\ normalized[healed[i].idx].o = NaN
           /\ healed[i].s # NaN /\ healed[i].s <= 20
           /\ Key3(healed[i - 1]) = Key3(healed[i])
           /\ healed[i].o = healed[i - 1].o /\ healed[i].o # NaN

-----------------------------------------------------------------------------
(* Properties of calculate_clv.main *)

RowsOfPlay(k) == {i \in 1..Len(master) : Key2(master[i]) = k}

SetMin(S) == CHOOSE m \in S : \A v \in S : m <= v

\* the landing x of a play: the value on the first row of its group
BallLandXOf(k) == master[SetMin(RowsOfPlay(k))].ball_land_x

PreThrowOf(k) == {i \in RowsOfPlay(k) : master[i].phase = "pre_throw"}

ThrowFrameOf(k) == SetMax({master[i].frame_id : i \in PreThrowOf(k)})

\* the rows of the window-start snapshot: frame_id = throw frame - 10
SnapshotOf(k) ==
    {i \in PreThrowOf(k) : master[i].frame_id = ThrowFrameOf(k) - 10}

PassersOf(k) == {i \in SnapshotOf(k) : master[i].player_role = "Passer"}

Analyzable(k) ==
    /\ BallLandXOf(k) # NaN
    /\ PreThrowOf(k) # {}
    /\ PassersOf(k) # {}
    /\ BallLandXOf(k) - master[SetMin(PassersOf(k))].x >= 80
    /\ \E i \in SnapshotOf(k) : master[i].player_role = "Defensive Coverage"

HasResult(k) ==
    \E i \in 1..Len(results) : <<results[i].game_id, results[i].play_id>> = k

Visited == PlayKeys(master) \ todo

WindowOf(k) ==
    {i \in PreThrowOf(k) : master[i].frame_id >= ThrowFrameOf(k) - 10}

\* the rows of the earliest frame that the window of a play holds
EarliestFrameOf(k) ==
    {i \in WindowOf(k) :
        \A j \in WindowOf(k) : master[i].frame_id <= master[j].frame_id}

\* C11: a play without a pre_throw row on frame throw_frame - 10 takes its
\* snapshot at the earliest frame of the window; with the landing point
\* present, a Passer row in that frame, at least 8.0 air yards from that
\* Passer and a Defensive Coverage row in that frame, it has a result row.
C11_SnapshotFallback ==
    \A k \in Visited :
        (/\ BallLandXOf(k) # NaN
         /\ PreThrowOf(k) # {}
         /\ SnapshotOf(k) = {}
         /\ \E i \in EarliestFrameOf(k) :
                /\ master[i].player_role = "Passer"
                /\ BallLandXOf(k) - master[i].x >= 80
         /\ \E i \in EarliestFrameOf(k) :
                master[i].player_role = "Defensive Coverage")
            => HasResult(k)

\* the result row of a play, and the snapshot rows of given role
ResultOf(k) ==
    results[CHOOSE i \in 1..Len(results) :
                <<results[i].game_id, results[i].play_id>> = k]

DefendersOf(k) ==
    {i \in SnapshotOf(k) : master[i].player_role = "Defensive Coverage"}

BallLandYOf(k) == master[SetMin(RowsOfPlay(k))].ball_land_y

DistSqToBall(i, k) ==
    (master[i].x - BallLandXOf(k)) * (master[i].x - BallLandXOf(k))
        + (master[i].y - BallLandYOf(k)) * (master[i].y - BallLandYOf(k))

\* the snapshot row of the player a result row names as the victim
VictimRowsOf(k) ==
    {i \in DefendersOf(k) : master[i].nfl_id = ResultOf(k).nfl_id}

\* the play holds defenders 1.0, 10.0 and 20.0 yards from the landing point
ThreeDefenders(k) ==
    {DistSqToBall(i, k) : i \in DefendersOf(k)}
        = {10 * 10, 100 * 100, 200 * 200}

\* C12: the victim of a result row is a Defensive Coverage row of the
\* window-start snapshot and no Defensive Coverage row of that snapshot is
\* nearer to (ball_land_x, ball_land_y); with defenders 1, 10 and 20 yards
\* away the victim is the one 1 yard away, whatever the order of the rows.
C12_VictimIsNearestDefender ==
    \A k \in Visited :
        HasResult(k) =>
            /\ VictimRowsOf(k) # {}
            /\ \A i \in VictimRowsOf(k) :
                   /\ \A j \in DefendersOf(k) :
                          DistSqToBall(i, k) <= DistSqToBall(j, k)
                   /\ ThreeDefenders(k) => DistSqToBall(i, k) = 10 * 10
                   /\ ResultOf(k).player_name = master[i].player_name
                   /\ ResultOf(k).player_position = master[i].player_position

\* a play with the three defenders has a result row, and the defender 1
\* yard away comes after the two others in the file
C12_Witness ==
    \E k \in Visited :
        /\ HasResult(k)
        /\ ThreeDefenders(k)
        /\ \E i \in VictimRowsOf(k) :
               \A j \in DefendersOf(k) : j <= i

\* the rows a play's clv is claimed to average: the victim's pre_throw rows
\* from frame throw_frame - 10 to the throw frame
VictimWindowOf(k) ==
    {i \in PreThrowOf(k) :
        /\ master[i].nfl_id = ResultOf(k).nfl_id
        /\ master[i].frame_id >= ThrowFrameOf(k) - 10
        /\ master[i].frame_id <= ThrowFrameOf(k)}

\* a row's velocity points straight at (+1) or straight away from (-1) the
\* landing point, or the row is at rest or on the landing point (0); rows
\* and landing point lie on one line of constant y and the row moves along it
Heading(i, k) ==
    LET to_ball == BallLandXOf(k) - master[i].x
        along == IF master[i].dir = 90 THEN 1 ELSE 0 - 1
    IN  IF master[i].s = 0 \/ to_ball = 0 THEN 0
        ELSE IF (to_ball > 0) = (along > 0) THEN 1 ELSE 0 - 1

RECURSIVE ClosingSum(_, _)
ClosingSum(S, k) ==
    IF S = {} THEN 0
    ELSE LET i == CHOOSE j \in S : TRUE
         IN  master[i].s * Heading(i, k) + ClosingSum(S \ {i}, k)

\* C13: clv is minus the mean closing speed over exactly the victim's
\* pre_throw rows with throw_frame - 10 <= frame_id <= throw_frame: the
\* mean (in sixtieths) times the number of those rows is minus sixty times
\* the sum of their closing speeds, so no other row contributes.
C13_ClvOverVictimWindow ==
    \A k \in Visited :
        HasResult(k) =>
            /\ VictimWindowOf(k) # {}
            /\ ResultOf(k).clv * Cardinality(VictimWindowOf(k))
                   = 0 - 60 * ClosingSum(VictimWindowOf(k), k)

\* the victim has a row before the window and a row in the air, both with
\* readings unlike the window's, and another defender ends the window on the
\* landing point, nearer than the victim
C13_Witness ==
    \E k \in Visited :
        /\ HasResult(k)
        /\ ResultOf(k).clv # 0
        /\ \E i \in PreThrowOf(k) :
               /\ master[i].nfl_id = ResultOf(k).nfl_id
               /\ master[i].frame_id < ThrowFrameOf(k) - 10
        /\ \E i \in RowsOfPlay(k) :
               /\ master[i].nfl_id = ResultOf(k).nfl_id
               /\ master[i].phase = "post_throw"
        /\ \E i \in WindowOf(k), j \in VictimWindowOf(k) :
               /\ master[i].player_role = "Defensive Coverage"
               /\ master[i].nfl_id # ResultOf(k).nfl_id
               /\ master[i].frame_id = master[j].frame_id
               /\ DistSqToBall(i, k) < DistSqToBall(j, k)

\* C14: a victim whose velocity points straight at the landing point in
\* every window row has clv < 0, one whose velocity points straight away in
\* every window row has clv > 0, and a victim at rest on the landing point
\* in every window row has clv = 0 (a number, not a missing value).
C14_ClvSign ==
    \A k \in Visited :
        HasResult(k) =>
            /\ (\A i \in VictimWindowOf(k) : Heading(i, k) = 1)
                   => ResultOf(k).clv # NaN /\ ResultOf(k).clv < 0
            /\ (\A i \in VictimWindowOf(k) : Heading(i, k) = 0 - 1)
                   => ResultOf(k).clv > 0
            /\ (\A i \in VictimWindowOf(k) :
                    /\ master[i].s = 0
                    /\ master[i].x = BallLandXOf(k)
                    /\ master[i].y = BallLandYOf(k))
                   => ResultOf(k).clv = 0

\* a victim at rest on the landing point through the whole window has a
\* result row
C14_Witness ==
    \E k \in Visited :
        /\ HasResult(k)
        /\ \A i \in VictimWindowOf(k) :
               /\ master[i].s = 0
               /\ master[i].x = BallLandXOf(k)
               /\ master[i].y = BallLandYOf(k)

\* victims running straight at and straight away from the landing point
C14_TowardReached ==
    \E k \in Visited :
        HasResult(k) /\ \A i \in VictimWindowOf(k) : Heading(i, k) = 1

C14_AwayReached ==
    \E k \in Visited :
        HasResult(k) /\ \A i \in VictimWindowOf(k) : Heading(i, k) = 0 - 1

\* the snapshot rows of the passer and of the victim of a result row
PasserRowOf(k) == master[SetMin(PassersOf(k))]

VictimRowOf(k) == master[SetMin(VictimRowsOf(k))]

\* the least angle between two directions given in whole degrees
CircularDiff(a, b) ==
    SetMin({Abs(a - b + 360 * n) : n \in (0 - 2)..2})

\* the bearing from the victim to the passer, both on one line of constant
\* y, and the victim's orientation as a math angle
BearingToPasser(k) ==
    IF PasserRowOf(k).x >= VictimRowOf(k).x THEN 0 ELSE 180

FacingOf(k) == 90 - VictimRowOf(k).o

PuppeteerEligible(k) == CircularDiff(BearingToPasser(k), FacingOf(k)) < 60

\* the skill players of the snapshot other than passer and target
CandidatesOf(k) ==
    {i \in SnapshotOf(k) :
        /\ master[i].player_position \in {"WR", "TE", "RB", "FB"}
        /\ master[i].player_role \notin {"Passer", "Targeted Receiver"}}

DistSqToVictim(i, k) ==
    (master[i].x - VictimRowOf(k).x) * (master[i].x - VictimRowOf(k).x)
        + (master[i].y - VictimRowOf(k).y) * (master[i].y - VictimRowOf(k).y)

\* the candidate nearest to the victim (the first of them in the file)
NearestOf(k) ==
    SetMin({i \in CandidatesOf(k) :
               \A j \in CandidatesOf(k) :
                   DistSqToVictim(i, k) <= DistSqToVictim(j, k)})

GravityEligible(k) ==
    /\ CandidatesOf(k) # {}
    /\ DistSqToVictim(NearestOf(k), k) < 100 * 100
    /\ master[NearestOf(k)].s > 30

\* C15: the label of a result row combines two tests made independently on
\* the snapshot: both hold - Dual Threat, only the vision cone - Puppeteer,
\* only the decoy - Gravity, neither - Unforced Error.
C15_FourWayLabel ==
    \A k \in Visited :
        HasResult(k) =>
            ResultOf(k).leak_cause =
                IF PuppeteerEligible(k) /\ GravityEligible(k)
                THEN "Dual Threat"
                ELSE IF PuppeteerEligible(k) THEN "Puppeteer"
                ELSE IF GravityEligible(k) THEN "Gravity"
                ELSE "Unforced Error"

\* plays 1 and 2 of the file have the same rows but for the orientation of
\* the victim at window start, which is inside the vision cone in one play
\* and outside it in the other
Twins ==
    LET a == play_group(master, <<GAME, 1>>)
        b == play_group(master, <<GAME, 2>>)
    IN  /\ {<<GAME, 1>>, <<GAME, 2>>} \subseteq Visited
        /\ HasResult(<<GAME, 1>>) /\ HasResult(<<GAME, 2>>)
        /\ Len(a) = Len(b)
        /\ \A i \in 1..Len(a) :
               /\ [b[i] EXCEPT !.play_id = 1, !.o = a[i].o] = a[i]
               /\ b[i].o # a[i].o =>
                      /\ a[i].nfl_id = ResultOf(<<GAME, 1>>).nfl_id
                      /\ a[i].frame_id = ThrowFrameOf(<<GAME, 1>>) - 10
        /\ PuppeteerEligible(<<GAME, 1>>) # PuppeteerEligible(<<GAME, 2>>)

\* C16: the result rows of two such plays differ in leak_cause only (one
\* is Puppeteer, the other is not); decoy_name, clv and every other field
\* are the same.
C16_OnlyLabelFlips ==
    Twins =>
        LET r1 == ResultOf(<<GAME, 1>>)
            r2 == ResultOf(<<GAME, 2>>)
        IN  /\ (r1.leak_cause = "Puppeteer") # (r2.leak_cause = "Puppeteer")
            /\ [r2 EXCEPT !.play_id = 1, !.leak_cause = r1.leak_cause] = r1

C17_SlowNearestReached ==
    \E k \in Visited :
        /\ HasResult(k)
        /\ ~PuppeteerEligible(k)
        /\ ResultOf(k).leak_cause = "Unforced Error"
        /\ \E j \in CandidatesOf(k) :
               /\ master[j].s > 30
               /\ master[NearestOf(k)].s <= 30
               /\ DistSqToVictim(NearestOf(k), k) < 100 * 100

\* C18: the vision error is the least circular difference between the
\* bearing from the victim to the passer and the victim's orientation as a
\* math angle: it lies in 0..180 whatever multiple of 360 separates the two
\* angles; the row is labelled Puppeteer exactly when it is below 60, and
\* in particular when the victim faces the passer (difference 0).
C18_VisionCone ==
    \A k \in Visited :
        HasResult(k) =>
            LET v == CircularDiff(BearingToPasser(k), FacingOf(k))
            IN  /\ vision_error_qb(PasserRowOf(k), VictimRowOf(k)) = v
                /\ v \in 0..180
                /\ (ResultOf(k).leak_cause = "Puppeteer") <=> (v < 60)
                /\ v = 0 => ResultOf(k).leak_cause = "Puppeteer"

\* the two angles lie on either side of the zero bearing (350 against 0)
\* and the row is labelled Puppeteer
C18_Witness ==
    \E k \in Visited :
        /\ HasResult(k)
        /\ Abs((FacingOf(k) % 360) - BearingToPasser(k)) > 180
        /\ ResultOf(k).leak_cause = "Puppeteer"

\* victims facing the passer, and 59 and 60 degrees off
C18_BoundaryReached ==
    /\ \E k \in Visited :
           /\ HasResult(k)
           /\ CircularDiff(BearingToPasser(k), FacingOf(k)) \in {0, 59, 60}

\* the post_throw rows of the victim of a result row
VictimPostOf(k) ==
    {i \in RowsOfPlay(k) : /\ master[i].phase = "post_throw"
                           /\ master[i].nfl_id = ResultOf(k).nfl_id}

\* C19: a play with a result row whose victim has fewer than the minimum
\* number of post_throw rows (10 in calculate_clv.main) carries the fields
\* bia_efficiency, reaction_delay and recovery_tax, all three missing
\* (NaN), while its clv and leak_cause are defined.
C19_PostThrowUndefined ==
    \A k \in Visited :
        (HasResult(k) /\ Cardinality(VictimPostOf(k)) < 10) =>
            LET r == ResultOf(k)
            IN  /\ "recovery_tax" \in DOMAIN r /\ r.recovery_tax = NaN
                /\ r.clv # NaN
                /\ r.leak_cause \in {"Puppeteer", "Gravity", "Unforced Error"}
                /\ "bia_efficiency" \in DOMAIN r /\ r.bia_efficiency = NaN
                /\ "reaction_delay" \in DOMAIN r /\ r.reaction_delay = NaN

\* what the result row of such a play does carry
C19_RecoveryTaxUndefined ==
    \A k \in Visited :
        (HasResult(k) /\ Cardinality(VictimPostOf(k)) < 10) =>
            LET r == ResultOf(k)
            IN  /\ r.recovery_tax = NaN
                /\ r.clv # NaN
                /\ r.leak_cause \in {"Puppeteer", "Gravity", "Unforced Error"}
                /\ DOMAIN r \cap {"bia_efficiency", "reaction_delay"} = {}

\* the victim's post_throw row with the n-th smallest frame_id
NthPostOf(k, n) ==
    CHOOSE i \in VictimPostOf(k) :
        Cardinality({j \in VictimPostOf(k) :
                        master[j].frame_id < master[i].frame_id}) = n - 1

\* distance of a row to the landing point, both on one line of constant y
DistToBall(i, k) == Abs(master[i].x - BallLandXOf(k))

\* C20: a recovery_tax is defined exactly when the victim has 10 post_throw
\* rows or more, and then it is 8.0 (8.0 yd/s over the 10 frames analyzed,
\* 0.1 s each) minus the ground closed between the victim's post_throw row
\* of smallest frame_id and the tenth one: the distance to the landing point
\* at the first minus that at the tenth; it is positive exactly when less
\* than 8.0 yards were closed.
C20_RecoveryTax ==
    \A k \in Visited :
        HasResult(k) =>
            LET r == ResultOf(k)
                closed == DistToBall(NthPostOf(k, 1), k)
                              - DistToBall(NthPostOf(k, 10), k)
            IN  /\ r.recovery_tax # NaN <=> Cardinality(VictimPostOf(k)) >= 10
                /\ r.recovery_tax # NaN =>
                       /\ r.recovery_tax = 80 - closed
                       /\ r.recovery_tax > 0 <=> closed < 80

\* the victim has eleven post_throw rows, listed in the file from the last
\* frame to the first, closes more than 8.0 yards and has a negative tax
C20_Witness ==
    \E k \in Visited :
        /\ HasResult(k)
        /\ Cardinality(VictimPostOf(k)) = 11
        /\ NthPostOf(k, 1) > NthPostOf(k, 10)
        /\ ResultOf(k).recovery_tax # NaN
        /\ ResultOf(k).recovery_tax < 0

\* a victim who closes less than 8.0 yards has a positive tax
C20_PositiveReached ==
    \E k \in Visited :
        /\ HasResult(k)
        /\ ResultOf(k).recovery_tax # NaN
        /\ ResultOf(k).recovery_tax > 0

\* every result row belongs to a visited play, no play has two rows, a
\* visited play that fails a context check has none, and once the loop is
\* over every analyzable play of the file has its row
OneRowPerPlay ==
    /\ \A i, j \in 1..Len(results) :
           i # j => <<results[i].game_id, results[i].play_id>>
                        # <<results[j].game_id, results[j].play_id>>
    /\ \A i \in 1..Len(results) :
           <<results[i].game_id, results[i].play_id>> \in Visited
    /\ \A k \in Visited : ~Analyzable(k) => ~HasResult(k)
    /\ todo = {} =>
           \A k \in PlayKeys(master) : Analyzable(k) => HasResult(k)

\* a step of the loop visits exactly one play not visited before and
\* appends at most one row, leaving the earlier rows as they are
VisitOnePlay ==
    /\ todo' \subseteq todo
    /\ Cardinality(todo') = Cardinality(todo) - 1
    /\ Len(results') \in {Len(results), Len(results) + 1}
    /\ SubSeq(results', 1, Len(results)) = results

\* C21: each (game_id, play_id) is visited exactly once and contributes at
\* most one result row; a rejected play contributes none and does not stop
\* the loop: the plays after it are processed.
C21_EachPlayOnce == [](OneRowPerPlay) /\ [][VisitOnePlay]_vars

\* the loop is over, the first play visited was rejected and a later play
\* has its result row
C21_Witness ==
    /\ todo = {}
    /\ \E k, j \in PlayKeys(master) :
           /\ LexLess(k, j)
           /\ ~HasResult(k)
           /\ HasResult(j)

\* the file that holds the rows of play k only, in file order
Alone(k) == SelectSeq(master, LAMBDA r : Key2(r) = k)

\* the rows the analysis yields on the file that holds play k only
AnalysisAlone(k) ==
    LET play_data == play_group(Alone(k), k)
        c == play_context(play_data)
    IN  IF c.ok THEN {result_row(play_data, c)} ELSE {}

\* the result rows of play k
RowsOf(k) ==
    {results[i] : i \in {j \in 1..Len(results) :
                             <<results[j].game_id, results[j].play_id>> = k}}

\* the frames of play k, apart from its play_id
OwnFrames(k) == [i \in 1..Len(Alone(k)) |-> [Alone(k)[i] EXCEPT !.play_id = 0]]

\* C22: the result row of a play, or its rejection, is a function of that
\* play's own frames only: the other plays of the file, and where their rows
\* sit in it, change nothing, two plays with the same frames have the same
\* row, and the rows of a finished run are those of each play analyzed alone.
C22_PlayIndependence ==
    /\ \A k \in Visited : RowsOf(k) = AnalysisAlone(k)
    /\ \A k, j \in Visited :
           OwnFrames(k) = OwnFrames(j) =>
               {[r EXCEPT !.play_id = 0] : r \in RowsOf(k)}
                   = {[r EXCEPT !.play_id = 0] : r \in RowsOf(j)}
    /\ todo = {} =>
           {results[i] : i \in 1..Len(results)}
               = UNION {AnalysisAlone(k) : k \in PlayKeys(master)}

\* a finished run over a file whose two plays have their rows interleaved
\* and end with different result rows
C22_Witness ==
    /\ todo = {}
    /\ \E a, b, c \in 1..Len(master) :
           /\ a < b /\ b < c
           /\ Key2(master[a]) = Key2(master[c])
           /\ Key2(master[a]) # Key2(master[b])
    /\ \E k, j \in PlayKeys(master) :
           /\ k # j
           /\ HasResult(k) /\ HasResult(j)
           /\ ResultOf(k).pass_length # ResultOf(j).pass_length

-----------------------------------------------------------------------------
(* Properties of the week loaders *)

LoadOver == load_status \notin {"idle", "running"}

\* the weeks whose two raw files exist / whose input file exists
CompleteWeeks == {w \in Weeks : disk[w] = {"input", "output"}}

InputWeeks == {w \in Weeks : "input" \in disk[w]}

\* the weeks that have rows in a table
WeeksOf(table) == {table[i].game_id : i \in 1..Len(table)}

\* the table a finished loader returned or saved
LoadedTable ==
    IF load_status # "returned" THEN <<>>
    ELSE IF loader = "load_multiple_weeks" THEN load_out.input
    ELSE IF loader = "preprocess_data" THEN load_out.plays_enriched
    ELSE load_out.master

\* the phases of the rows of week w in the loaded table
PhasesOf(w) ==
    {LoadedTable[i].phase :
        i \in {j \in 1..Len(LoadedTable) : LoadedTable[j].game_id = w}}

\* load_multiple_weeks raises FileNotFoundError exactly when no week has
\* both files, and otherwise returns the complete weeks in week order
LoadMultipleWeeksRule ==
    loader = "load_multiple_weeks" /\ LoadOver =>
        /\ load_status = "FileNotFoundError" <=> CompleteWeeks = {}
        /\ load_status = "returned" <=> CompleteWeeks # {}
        /\ load_status = "returned" =>
               /\ WeeksOf(load_out.input) = CompleteWeeks
               /\ WeeksOf(load_out.output_enriched) = CompleteWeeks
               /\ \A i, j \in 1..Len(load_out.input) :
                      i < j => load_out.input[i].game_id
                                   <= load_out.input[j].game_id

\* C23 as stated: a week with an absent input or output file is skipped, the
\* other weeks are loaded and combined, and a loader fails only when no
\* week could be loaded (load_multiple_weeks with FileNotFoundError).
C23_WeekSkipAndContinue ==
    LoadOver =>
        /\ load_status = "returned" => WeeksOf(LoadedTable) = CompleteWeeks
        /\ load_status # "returned" => CompleteWeeks = {}
        /\ LoadMultipleWeeksRule

\* C23 (amended): load_multiple_weeks and preprocess_data skip a week with
\* an absent input or output file and combine the others; they fail only
\* when no week has both files (FileNotFoundError, and the ValueError of
\* pd.concat). ZoneCoverageETL.run skips a week without input file, keeps
\* a week without output file with its pre_throw rows only, and never
\* fails over week files: without any week it writes no master file.
C23_WeekLoading ==
    LoadOver =>
        /\ LoadMultipleWeeksRule
        /\ loader = "preprocess_data" =>
               /\ load_status = "ValueError" <=> CompleteWeeks = {}
               /\ load_status = "returned" <=> CompleteWeeks # {}
               /\ WeeksOf(LoadedTable) = CompleteWeeks
        /\ loader = "run" =>
               /\ load_status = "returned"
               /\ load_out.written <=> InputWeeks # {}
               /\ WeeksOf(LoadedTable) = InputWeeks
               /\ \A w \in InputWeeks :
                      PhasesOf(w) = IF w \in CompleteWeeks
                                    THEN {"pre_throw", "post_throw"}
                                    ELSE {"pre_throw"}

\* a loader has gone over weeks of which the first lacks a file and a
\* later one is complete, and has returned the later one
C23_Witness ==
    /\ load_status = "returned"
    /\ \E w, v \in Weeks :
           /\ w < v
           /\ disk[w] # {"input", "output"}
           /\ v \in CompleteWeeks
           /\ v \in WeeksOf(LoadedTable)

-----------------------------------------------------------------------------
(* Properties of ContextEngine.calculate_void_context *)

ContextDone == ana_pc = "context"

\* the rows of play k on its last pre_throw frame
AtThrow(k) ==
    LET pre == {i \in 1..Len(df_physics) :
                   Key2(df_physics[i]) = k /\ df_physics[i].phase = "pre_throw"}
    IN  {i \in pre : \A j \in pre :
                         df_physics[j].frame_id <= df_physics[i].frame_id}

\* role names as the engine reads them: blanks around them do not count
IsTarget(role) == role \in {"Targeted Receiver", " Targeted Receiver "}

IsCover(role) == role \in {"Defensive Coverage", "Defensive Coverage "}

TargetsAt(k) == {i \in AtThrow(k) : IsTarget(df_physics[i].player_role)}

CoverAt(k) == {i \in AtThrow(k) : IsCover(df_physics[i].player_role)}

ContextRowsOf(k) == {i \in 1..Len(df_context) : Key2(df_context[i]) = k}

\* squared distance between two rows of the frames table
GapSq(i, j) ==
    (df_physics[i].x - df_physics[j].x) * (df_physics[i].x - df_physics[j].x)
    + (df_physics[i].y - df_physics[j].y) * (df_physics[i].y - df_physics[j].y)

\* C24: calculate_void_context returns exactly one row for a play that has
\* a Targeted Receiver and a Defensive Coverage row on its last pre_throw
\* frame (and none for another play); the row names a defender nearest to
\* the Targeted Receiver on that frame, and dist_at_throw is their
\* Euclidean distance on that frame.
C24_NearestDefenderAtThrow ==
    ContextDone =>
        /\ \A i \in 1..Len(df_context) :
               Key2(df_context[i]) \in PlayKeys(df_physics)
        /\ \A k \in PlayKeys(df_physics) :
               IF TargetsAt(k) # {} /\ CoverAt(k) # {}
               THEN /\ Cardinality(ContextRowsOf(k)) = 1
                    /\ \A i \in ContextRowsOf(k) :
                           \E d \in CoverAt(k), t \in TargetsAt(k) :
                               /\ df_context[i].nearest_def_nfl_id
                                      = df_physics[d].nfl_id
                               /\ df_context[i].target_nfl_id
                                      = df_physics[t].nfl_id
                               /\ df_context[i].dist_at_throw
                                      * df_context[i].dist_at_throw
                                      = GapSq(d, t)
                               /\ \A e \in CoverAt(k) :
                                      GapSq(d, t) <= GapSq(e, t)
               ELSE ContextRowsOf(k) = {}

\* a play with two defenders at the throw: the one named in the row stands
\* across the field and was not the nearest one on the frame before
C24_Witness ==
    /\ ContextDone
    /\ \E k \in PlayKeys(df_physics), i \in 1..Len(df_context) :
           /\ Key2(df_context[i]) = k
           /\ Cardinality(CoverAt(k)) = 2
           /\ df_context[i].nearest_def_nfl_id = 11
           /\ df_context[i].dist_at_throw = 50
           /\ \E d \in CoverAt(k) :
                  /\ df_physics[d].nfl_id = 11
                  /\ df_physics[d].y # Y0

\* C25: void_type is 'High Void' when dist_at_throw > 5.0, 'Tight Window'
\* when dist_at_throw < 2.0 and 'Neutral' otherwise, exactly 2.0 and
\* exactly 5.0 included; a row has exactly one of the three labels.
C25_VoidType ==
    ContextDone =>
        \A i \in 1..Len(df_context) :
            LET r == df_context[i]
            IN  /\ r.void_type \in {"High Void", "Tight Window", "Neutral"}
                /\ r.void_type = "High Void" <=> r.dist_at_throw > 50
                /\ r.void_type = "Tight Window" <=> r.dist_at_throw < 20
                /\ r.void_type = "Neutral"
                       <=> (20 <= r.dist_at_throw /\ r.dist_at_throw <= 50)

\* two plays: one exactly 5.0 yards open and labelled Neutral, one beyond
C25_Witness ==
    /\ ContextDone
    /\ \E i, j \in 1..Len(df_context) :
           /\ df_context[i].dist_at_throw = 50
           /\ df_context[i].void_type = "Neutral"
           /\ df_context[j].void_type = "High Void"

-----------------------------------------------------------------------------
(* Properties of BenchmarkingEngine.calculate_ceoe *)

FinalDone == ana_pc = "final"

\* C26: calculate_ceoe returns exactly one row per row of df_metrics, in the
\* same order, however many frame rows df_physics holds for the player and
\* play.
C26_OneRowPerMetric ==
    FinalDone =>
        /\ Len(df_final) = Len(df_metrics)
        /\ \A i \in 1..Len(df_metrics) :
               /\ Key3(df_final[i]) = Key3(df_metrics[i])
               /\ df_final[i].avg_closing_speed
                      = df_metrics[i].avg_closing_speed

\* several defenders, each with several frame rows
C26_Witness ==
    /\ FinalDone
    /\ Len(df_metrics) >= 2
    /\ \A i \in 1..Len(df_metrics) :
           Cardinality({j \in 1..Len(df_physics) :
                           Key3(df_physics[j]) = Key3(df_metrics[i])}) >= 2

\* the positions of a player in the frames, the void types of a play in the
\* context table
PosOf(m) ==
    {df_physics[j].player_position :
        j \in {l \in 1..Len(df_physics) : Key3(df_physics[l]) = Key3(m)}}

VoidOf(m) ==
    {df_context[j].void_type :
        j \in {l \in 1..Len(df_context) : Key2(df_context[l]) = Key2(m)}}

Grouped(i) == PosOf(df_metrics[i]) # {} /\ VoidOf(df_metrics[i]) # {}

\* the rows of the same position and void type as row i
Peers(i) ==
    {j \in 1..Len(df_metrics) :
        /\ PosOf(df_metrics[j]) = PosOf(df_metrics[i])
        /\ VoidOf(df_metrics[j]) = VoidOf(df_metrics[i])}

RECURSIVE SpeedSum(_)
SpeedSum(S) ==
    IF S = {} THEN 0
    ELSE LET j == CHOOSE j \in S : TRUE
         IN  df_metrics[j].avg_closing_speed + SpeedSum(S \ {j})

\* C27: ceoe_score of a row is its avg_closing_speed minus the mean
\* avg_closing_speed of the rows with the same (player_position, void_type),
\* and of no other row; a player faster than the mean of the group has a
\* positive score, a player alone in the group has 0.
C27_CeoeScore ==
    FinalDone /\ Len(df_final) = Len(df_metrics) =>
        \A i \in 1..Len(df_metrics) :
            Grouped(i) =>
                LET n == Cardinality(Peers(i))
                    v == df_metrics[i].avg_closing_speed
                IN  /\ df_final[i].ceoe_score * n
                           = MEAN_UNIT * (v * n - SpeedSum(Peers(i)))
                    /\ v * n > SpeedSum(Peers(i))
                           => df_final[i].ceoe_score > 0
                    /\ n = 1 => df_final[i].ceoe_score = 0

\* two cornerbacks of one group, the faster one with a positive score, and
\* a linebacker alone in his group in the same table
C27_Witness ==
    /\ FinalDone
    /\ \E i, j, l \in 1..Len(df_final) :
           /\ Grouped(i) /\ Grouped(l)
           /\ j \in Peers(i) /\ j # i
           /\ df_final[i].ceoe_score > 0
           /\ df_final[j].ceoe_score < 0
           /\ l \notin Peers(i)
           /\ Peers(l) = {l}
           /\ df_metrics[l].avg_closing_speed # df_metrics[j].avg_closing_speed

\* a row whose position or void type is missing is in no group: 0.0
C27_UngroupedZero ==
    FinalDone /\ Len(df_final) = Len(df_metrics) =>
        \A i \in 1..Len(df_metrics) : ~Grouped(i) => df_final[i].ceoe_score = 0

-----------------------------------------------------------------------------
(* Properties of StoryDataEngine *)

\* the value a pool is sorted by, larger is better when not ascending
Better(a, b, sort_col, ascending) ==
    IF ascending THEN a[sort_col] < b[sort_col] ELSE a[sort_col] > b[sort_col]

\* the rows of a pool with fewer than top_n better rows
TopRows(pool, sort_col, ascending, top_n) ==
    {pool[i] : i \in {j \in 1..Len(pool) :
        Cardinality({l \in 1..Len(pool) :
                        Better(pool[l], pool[j], sort_col, ascending)})
            < top_n}}

PoolOf(a) ==
    IF a = "The Eraser" THEN eraser_pool(summary_df)
    ELSE IF a = "The Rally" THEN rally_pool(summary_df)
    ELSE IF a = "The Blanket" THEN blanket_pool(summary_df)
    ELSE liability_pool(summary_df)

\* the archetype's play is the best row of its pool, None without pool
CastReportsBest ==
    ana_pc = "cast" =>
        \A a \in Archetypes :
            IF PoolOf(a) = <<>> THEN cast[a] = <<>>
            ELSE /\ Len(cast[a]) = 1
                 /\ \E r \in TopRows(PoolOf(a),
                                     IF a = "The Blanket"
                                     THEN "dist_at_arrival" ELSE "vis_score",
                                     a \in {"The Blanket", "The Liability"}, 1) :
                        /\ cast[a][1].play_id = r.play_id
                        /\ cast[a][1].nfl_id = r.nfl_id
                        /\ cast[a][1].vis_score = r.vis_score

\* C28: _select_candidate(df, sort_col, ascending, top_n) returns exactly
\* one row for a non-empty pool, one of the top_n rows of the pool in the
\* requested order; cast_archetypes reports that row as the archetype's
\* play and None for an archetype whose pool is empty.
C28_SelectOne ==
    /\ ana_pc = "selected" /\ summary_df # <<>> =>
           /\ Len(selected[1].rows) = 1
           /\ selected[1].rows[1]
                  \in TopRows(summary_df, selected[1].sort_col,
                              selected[1].ascending, selected[1].top_n)
    /\ CastReportsBest

\* what _select_candidate returns: the first top_n rows of the sorted pool
C28_HeadOfPool ==
    ana_pc = "selected" =>
        /\ Len(selected[1].rows)
               = IF selected[1].top_n < Len(summary_df)
                 THEN selected[1].top_n ELSE Len(summary_df)
        /\ {selected[1].rows[i] : i \in 1..Len(selected[1].rows)}
               = TopRows(summary_df, selected[1].sort_col,
                         selected[1].ascending, selected[1].top_n)

-----------------------------------------------------------------------------
(* Properties of process_week_data: whole plays *)

\* the play is recorded right to left: its input rows say left
LeftPlay(k) ==
    \E j \in 1..Len(ValidInput) :
        Key2(ValidInput[j]) = k /\ SaysLeft(ValidInput[j])

\* the returned row is the mirror image of the row as stitched
MirroredRow(r) ==
    /\ r.x = 1200 - stitched[r.idx].x
    /\ r.y = 533 - stitched[r.idx].y

\* the player of the row has pre-event rows in the play
HasPreRows(r) ==
    \E j \in 1..Len(ValidInput) : Key3(ValidInput[j]) = Key3(r)

\* C29: in the table returned by process_week_data every row of a play
\* whose direction is left is mirrored, pre_throw and post_throw, also the
\* rows of a player who has post-event rows only; no play has mirrored rows
\* next to rows in raw coordinates.
C29_MirrorWholePlay ==
    EtlDone =>
        /\ \A i \in 1..Len(full_week) :
               LeftPlay(Key2(full_week[i])) => MirroredRow(full_week[i])
        /\ \A i, j \in 1..Len(full_week) :
               Key2(full_week[i]) = Key2(full_week[j]) =>
                   (MirroredRow(full_week[i]) <=> MirroredRow(full_week[j]))

\* the rows of the players who have pre-event rows are mirrored
C29_MirrorWithPreRows ==
    EtlDone =>
        \A i \in 1..Len(full_week) :
            LeftPlay(Key2(full_week[i])) /\ HasPreRows(full_week[i])
                => MirroredRow(full_week[i])

\* the frame ids of one phase of a play in the returned table
PhaseFrames(k, phase) ==
    {full_week[i].frame_id :
        i \in {j \in 1..Len(full_week) :
                  Key2(full_week[j]) = k /\ full_week[j].phase = phase}}

\* C30: a play of the returned table that has both phases and is flagged
\* has_gap = False is contiguous across the throw: its smallest post_throw
\* frame_id is its largest pre_throw frame_id + 1; and has_gap is the same
\* on every row of a play.
C30_GapFlagSound ==
    EtlDone =>
        /\ \A i, j \in 1..Len(full_week) :
               Key2(full_week[i]) = Key2(full_week[j]) =>
                   full_week[i].has_gap = full_week[j].has_gap
        /\ \A i \in 1..Len(full_week) :
               LET k == Key2(full_week[i])
               IN  /\ ~full_week[i].has_gap
                   /\ PhaseFrames(k, "pre_throw") # {}
                   /\ PhaseFrames(k, "post_throw") # {}
                   => SetMin(PhaseFrames(k, "post_throw"))
                          = SetMax(PhaseFrames(k, "pre_throw")) + 1

\* what the flag says: the output file of the play, as read, starts on the
\* frame after the last input frame, so that the stitched post_throw frames
\* start one offset later
C30_FlagComparesRawIds ==
    EtlDone =>
        \A i \in 1..Len(full_week) :
            LET k == Key2(full_week[i])
            IN  /\ ~full_week[i].has_gap
                /\ PhaseFrames(k, "pre_throw") # {}
                /\ PhaseFrames(k, "post_throw") # {}
                /\ k \in PlayKeys(ValidInput)
                => SetMin(PhaseFrames(k, "post_throw"))
                       = 2 * SeqMax(FramesOf(ValidInput, k)) + 1

====
